---------------------------- MODULE Spec2Model ----------------------------
(***************************************************************************)
(* Model of the Claude bridge process (claude-bridge/channel-manager.js):  *)
(* the AsyncStream channel, the transcript store (persistJsonlMessage,     *)
(* loadSessionHistory, getSessionMessages) and the send / sendWith-        *)
(* Attachments / Anthropic-SDK exchanges with their stdout line protocol.  *)
(*                                                                         *)
(* The specifications of the module share its variables; each leaves the   *)
(* variables of the others at rest:                                        *)
(*   StreamSpec   one AsyncStream object driven by a producer and a        *)
(*                consumer that has one call outstanding at a time;        *)
(*   HistorySpec  loadSessionHistory applied to a transcript file;         *)
(*   PersistSpec  persistJsonlMessage called repeatedly;                   *)
(*   KeySpec      setupApiKey on a settings file and an environment;       *)
(*   WorkdirSpec  selectWorkingDirectory;                                  *)
(*   ModelSpec    mapModelIdToSdkName;                                     *)
(*   AttachSpec   loadAttachments and the content blocks built from it;    *)
(*   PullSpec     the AsyncStream object with overlapping pulls;            *)
(*   SessionSpec  the Anthropic-SDK exchange repeated on one session;       *)
(*   ChatSpec     handleSubmit of the chat view;                            *)
(*   DepSpec      the DependencySection component of the settings view;     *)
(*   StdinSpec    readStdinData and the events of standard input;           *)
(*   OptionsSpec  the options send and sendWithAttachments give query();    *)
(*   Spec         one run of the bridge process (one command).             *)
(***************************************************************************)
EXTENDS Integers, Sequences, FiniteSets, TLC

(***************************************************************************)
(* Bounds of the model.                                                    *)
(***************************************************************************)
MaxEnqueue == 3
MaxPulls == 4
MaxIterate == 2
MaxLines == 3

(***************************************************************************)
(* Strings are sequences of characters, so that the string operations of   *)
(* the code (toLowerCase, includes, startsWith, trim) are computed.        *)
(***************************************************************************)
UpperCase ==
    <<"A", "B", "C", "D", "E", "F", "G", "H", "I", "J", "K", "L", "M",
      "N", "O", "P", "Q", "R", "S", "T", "U", "V", "W", "X", "Y", "Z">>
LowerCase ==
    <<"a", "b", "c", "d", "e", "f", "g", "h", "i", "j", "k", "l", "m",
      "n", "o", "p", "q", "r", "s", "t", "u", "v", "w", "x", "y", "z">>

LowerChar(ch) ==
    IF \E i \in DOMAIN UpperCase : UpperCase[i] = ch
      THEN LowerCase[CHOOSE i \in DOMAIN UpperCase : UpperCase[i] = ch]
      ELSE ch

\* String.prototype.toLowerCase
toLowerCase(str) == [i \in 1..Len(str) |-> LowerChar(str[i])]

\* String.prototype.includes
includes(str, sub) ==
    \E i \in 0..(Len(str) - Len(sub)) : SubSeq(str, i + 1, i + Len(sub)) = sub

\* String.prototype.startsWith
startsWith(str, prefix) ==
    Len(str) >= Len(prefix) /\ SubSeq(str, 1, Len(prefix)) = prefix

\* String.prototype.trim
RECURSIVE trim(_)
trim(str) ==
    IF str = <<>> THEN str
    ELSE IF Head(str) = " " THEN trim(Tail(str))
    ELSE IF str[Len(str)] = " " THEN trim(SubSeq(str, 1, Len(str) - 1))
    ELSE str

(***************************************************************************)
(* AsyncStream (channel-manager.js 32-83).                                 *)
(*   queue, readResolve, isDone, started are the object's fields.          *)
(*   A pull is one call of next(); pulls[i] is what the i-th call's        *)
(*   promise holds: Pending, Eos ({done: true}) or the value delivered.    *)
(*   Values are numbered 1, 2, ... in the order they are enqueued.         *)
(*   readResolve is 0 for undefined, else the index of the pull whose      *)
(*   resolve function it holds.                                            *)
(***************************************************************************)
VARIABLES queue, readResolve, isDone, started,
          pulls, waited, enqCount, iterLog, doneAt, returnAt

streamVars == <<queue, readResolve, isDone, started,
                pulls, waited, enqCount, iterLog, doneAt, returnAt>>

Pending == 0
Eos == -1
NotYet == 0 - 1

\* constructor
StreamInit ==
    /\ queue = <<>>
    /\ readResolve = 0
    /\ isDone = FALSE
    /\ started = FALSE
    /\ pulls = <<>>
    /\ waited = {}
    /\ enqCount = 0
    /\ iterLog = <<>>
    /\ doneAt = NotYet
    /\ returnAt = NotYet

\* [Symbol.asyncIterator](): throws when the stream was already started
IteratorThrowsNever(st) == FALSE
IteratorThrows(st) == st

asyncIterator ==
    /\ Len(iterLog) < MaxIterate
    /\ IF IteratorThrows(started)
         THEN /\ iterLog' = Append(iterLog, "Stream can only be iterated once")
              /\ started' = started
         ELSE /\ iterLog' = Append(iterLog, "ok")
              /\ started' = TRUE
    /\ UNCHANGED <<queue, readResolve, isDone, pulls, waited, enqCount,
                   doneAt, returnAt>>

\* what next() answers at once, or Pending when it has to suspend
NextAnswer ==
    IF Len(queue) > 0 THEN Head(queue)
    ELSE IF isDone THEN Eos
    ELSE Pending

\* next(): any call, also one issued while an earlier pull is suspended
next ==
    /\ Len(pulls) < MaxPulls
    /\ pulls' = Append(pulls, NextAnswer)
    /\ queue' = IF Len(queue) > 0 THEN Tail(queue) ELSE queue
    /\ readResolve' = IF NextAnswer = Pending THEN Len(pulls) + 1 ELSE readResolve
    /\ waited' = IF NextAnswer = Pending THEN waited \cup {Len(pulls) + 1} ELSE waited
    /\ UNCHANGED <<isDone, started, enqCount, iterLog, doneAt, returnAt>>

\* the consumer has no call outstanding
ConsumerIdle == \A i \in DOMAIN pulls : pulls[i] # Pending

\* queue.push(value)
QueuePushFront(q, v) == <<v>> \o q
QueuePush(q, v) == Append(q, v)

\* enqueue(value)
enqueue ==
    /\ enqCount < MaxEnqueue
    /\ enqCount' = enqCount + 1
    /\ IF readResolve # 0
         THEN /\ pulls' = [pulls EXCEPT ![readResolve] = enqCount + 1]
              /\ readResolve' = 0
              /\ queue' = queue
         ELSE /\ queue' = QueuePush(queue, enqCount + 1)
              /\ UNCHANGED <<pulls, readResolve>>
    /\ UNCHANGED <<isDone, started, waited, iterLog, doneAt, returnAt>>

\* done()
done ==
    /\ isDone' = TRUE
    /\ doneAt' = IF doneAt = NotYet THEN enqCount ELSE doneAt
    /\ IF readResolve # 0
         THEN /\ pulls' = [pulls EXCEPT ![readResolve] = Eos]
              /\ readResolve' = 0
         ELSE UNCHANGED <<pulls, readResolve>>
    /\ UNCHANGED <<queue, started, waited, enqCount, iterLog, returnAt>>

\* return(): the consumer cancels; the call itself answers {done: true}
return ==
    /\ isDone' = TRUE
    /\ returnAt' = IF returnAt = NotYet /\ ~isDone THEN Len(pulls) ELSE returnAt
    /\ UNCHANGED <<queue, readResolve, started, pulls, waited, enqCount,
                   iterLog, doneAt>>

(***************************************************************************)
(* Transcript store (channel-manager.js 826-896).                          *)
(*   A transcript file is the sequence of its non-blank lines.  A line is  *)
(*   unparsable (JSON.parse throws) or holds an entry: its type, its       *)
(*   message.content, and the metadata persistJsonlMessage adds.           *)
(*   message.content is an array of blocks, a string, or missing.          *)
(***************************************************************************)
NoContent == [kind |-> "none", blocks |-> <<>>, str |-> ""]
ArrayContent(bs) == [kind |-> "array", blocks |-> bs, str |-> ""]
StringContent(s) == [kind |-> "string", blocks |-> <<>>, str |-> s]
TextBlock(t) == [type |-> "text", text |-> t]
ToolUseBlock == [type |-> "tool_use", text |-> ""]

\* JavaScript truthiness of msg.message && msg.message.content
Truthy(c) == c.kind = "array" \/ (c.kind = "string" /\ c.str # "")

Entry(t, c, u, sid, ts) ==
    [parsable |-> TRUE, type |-> t, content |-> c, uuid |-> u,
     sessionId |-> sid, timestamp |-> ts]
\* { ...obj, uuid: randomUUID(), sessionId, timestamp: new Date().toISOString() }
\* an entry that brings no such field of its own has 0 / "" / 0 there
enrichedObjKeepingOwn(obj, u, sid, ts) ==
    [obj EXCEPT !.uuid = IF obj.uuid # 0 THEN obj.uuid ELSE u,
                !.sessionId = IF obj.sessionId # "" THEN obj.sessionId ELSE sid,
                !.timestamp = IF obj.timestamp # 0 THEN obj.timestamp ELSE ts]
enrichedObj(obj, u, sid, ts) ==
    [obj EXCEPT !.uuid = u, !.sessionId = sid, !.timestamp = ts]

BadLine ==
    [parsable |-> FALSE, type |-> "", content |-> NoContent, uuid |-> 0,
     sessionId |-> "", timestamp |-> 0]

\* the for loop of loadSessionHistory: one message per user/assistant entry
RECURSIVE CollectMessages(_)
CollectMessages(lines) ==
    IF lines = <<>> THEN <<>>
    ELSE LET msg == Head(lines)
             rest == CollectMessages(Tail(lines))
         IN  IF ~msg.parsable THEN rest
             ELSE IF msg.type = "user" /\ Truthy(msg.content)
                    THEN <<[role |-> "user", content |-> msg.content]>> \o rest
             ELSE IF msg.type = "assistant" /\ Truthy(msg.content)
                    THEN <<[role |-> "assistant", content |-> msg.content]>> \o rest
             ELSE rest

\* messages.pop() when the last message is the user's
PopTrailingAlways(messages) ==
    IF Len(messages) > 0 THEN SubSeq(messages, 1, Len(messages) - 1) ELSE messages
PopTrailingUser(messages) ==
    IF Len(messages) > 0 /\ messages[Len(messages)].role = "user"
      THEN SubSeq(messages, 1, Len(messages) - 1)
      ELSE messages

\* loadSessionHistory on the lines of an existing session file
HistoryOfLines(lines) == PopTrailingUser(CollectMessages(lines))

(***************************************************************************)
(* HistorySpec: loadSessionHistory applied to a transcript drawn from the  *)
(* line shapes below.                                                      *)
(***************************************************************************)
VARIABLES hLines, hResult, hPc

histVars == <<hLines, hResult, hPc>>

LineShapes ==
    { BadLine,
      Entry("user", ArrayContent(<<TextBlock("q")>>), 0, "s1", 0),
      Entry("assistant", ArrayContent(<<TextBlock("a")>>), 0, "s1", 0),
      Entry("assistant", ArrayContent(<<>>), 0, "s1", 0),
      Entry("user", NoContent, 0, "s1", 0),
      Entry("summary", NoContent, 0, "s1", 0),
      Entry("system", StringContent("note"), 0, "s1", 0) }

RECURSIVE SeqsUpTo(_, _)
SeqsUpTo(S, n) ==
    IF n = 0 THEN {<<>>}
    ELSE LET shorter == SeqsUpTo(S, n - 1)
         IN  shorter \cup {Append(s, x) : s \in shorter, x \in S}

HistInit ==
    /\ hLines \in SeqsUpTo(LineShapes, MaxLines)
    /\ hResult = <<>>
    /\ hPc = "file"

HistIdle ==
    /\ hLines = <<>>
    /\ hResult = <<>>
    /\ hPc = "idle"

LoadHistory ==
    /\ hPc = "file"
    /\ hResult' = HistoryOfLines(hLines)
    /\ hPc' = "loaded"
    /\ hLines' = hLines

(***************************************************************************)
(* The bridge process: one command per process (channel-manager.js         *)
(* 1188-1247).  Inputs are the command line, the credential lookup and the *)
(* transcript files found on disk.                                         *)
(*   command           argv[2]; "fallback" stands for a caller entering    *)
(*                     sendMessageWithAnthropicSDK                         *)
(*   message           args[0] of send / sendWithAttachments               *)
(*   resumeSessionId   args[1] ("" when absent); getSession's sessionId    *)
(*   cwd               the cwd argument (NoCwd when absent)                *)
(*   hasApiKey         whether setupApiKey finds a key                     *)
(*   baseUrl           the endpoint setupApiKey returns (<<>>: undefined)  *)
(*   attachments       what loadAttachments returned                       *)
(*   files             session file key -> lines; files0 is files at start *)
(*   now               milliseconds since the process started              *)
(*   out               the protocol lines written to standard output       *)
(*   received          the events the for-await loop has taken so far      *)
(*   timer             the setTimeout of the race: unset, armed, cleared,  *)
(*                     fired                                               *)
(*   outcome           how the exchange went, "running" until it ends      *)
(*   exitCode          the exit code of the process, NoExit while it runs  *)
(***************************************************************************)
VARIABLES command, message, resumeSessionId, cwd, hasApiKey, baseUrl, attachments,
          files, files0, uuidNext, now, pc, out, received, currentSessionId,
          timer, outcome, messagesForApi, sessionMessages, exitCode

bridgeVars == <<command, message, resumeSessionId, cwd, hasApiKey, baseUrl, attachments,
                files, files0, uuidNext, now, pc, out, received,
                currentSessionId, timer, outcome, messagesForApi,
                sessionMessages, exitCode>>

MaxEvents == 2
MaxPrior == 2
TickMs == 30000
QueryTimeoutMs == 60000

AbortMessage == "Claude Code process aborted by user"
NoKeyMessage == "API Key not configured"
NotFoundMessage == "Session file not found"
ReadErrorMessage == "EISDIR: illegal operation on a directory, read"
FreshSessionId == "fresh-uuid"

\* the process has not exited
NoExit == 0 - 1

\* process.argv[2] when it names no command of the switch, or is missing
UnknownCommands == {"bogus", "undefined"}
UnknownCommandMessage(name) ==
    IF name = "bogus" THEN "Unknown command: bogus" ELSE "Unknown command: undefined"
FaultMessage == "fault outside the command"

\* endpoints
ApiAnthropicCom ==
    <<"a", "p", "i", ".", "a", "n", "t", "h", "r", "o", "p", "i", "c", ".", "c", "o", "m">>
Https == <<"h", "t", "t", "p", "s", ":", "/", "/">>
NoBaseUrl == <<>>
BaseUrls ==
    { NoBaseUrl,
      Https \o ApiAnthropicCom,
      Https \o <<"A", "P", "I", ".", "A", "n", "t", "h", "r", "o", "p", "i", "c", ".", "c", "o", "m">>,
      Https \o <<"8", "8", "c", "o", "d", "e", ".", "o", "r", "g">> }

\* isCustomBaseUrl
isCustomBaseUrl(url) ==
    IF url = NoBaseUrl THEN FALSE
    ELSE ~includes(toLowerCase(url), ApiAnthropicCom)

\* the delivery path of a send: the custom endpoint is logged, and the
\* runtime is used all the same
deliveryPathByEndpoint(url) == IF isCustomBaseUrl(url) THEN "sdk" ELSE "native"
deliveryPath(url) == "native"

\* setupApiKey throws when it finds no key
setupApiKeyNeverThrows(has) == FALSE
setupApiKeyThrows(has) == ~has

\* paths are sequences of characters
NoCwd == <<>>
ProjectDir == <<"/", "p">>
ProcessCwd == <<"/", "h">>
Alphanumeric == {"p", "h"}

\* (cwd || process.cwd()).replace(/[^a-zA-Z0-9]/g, '-')
sanitizedCwd(c) ==
    LET path == IF c # NoCwd THEN c ELSE ProcessCwd
    IN  [i \in 1..Len(path) |-> IF path[i] \in Alphanumeric THEN path[i] ELSE "-"]

\* join(projectsDir, sanitizedCwd, sessionId + '.jsonl')
sessionFile(sid, c) == <<sanitizedCwd(c), sid>>

\* runtime events and the events the fallback path synthesizes
Event(t, sid, c, stop, err) ==
    [type |-> t, session_id |-> sid, content |-> c, stop_reason |-> stop,
     is_error |-> err]
NoEvent == Event("", "", NoContent, "", FALSE)

Events ==
    { Event("system", "s2", NoContent, "", FALSE),
      Event("system", "s3", NoContent, "", FALSE),
      Event("system", "", NoContent, "", FALSE),
      Event("assistant", "s2",
            ArrayContent(<<TextBlock("t1"), ToolUseBlock, TextBlock("t2")>>),
            "end_turn", FALSE),
      Event("assistant", "s2", StringContent("t3"), "end_turn", FALSE),
      Event("result", "s2", NoContent, "", FALSE) }

\* protocol lines on standard output
OutLine(tag, ev, text) == [tag |-> tag, ev |-> ev, text |-> text]
MessageStart == OutLine("MESSAGE_START", NoEvent, "")
Resuming(id) == OutLine("RESUMING", NoEvent, id)
Message(ev) == OutLine("MESSAGE", ev, "")
ContentLine(text) == OutLine("CONTENT", NoEvent, text)
SessionIdLine(id) == OutLine("SESSION_ID", NoEvent, id)
MessageEnd == OutLine("MESSAGE_END", NoEvent, "")
Success(sid) == OutLine("SUCCESS", NoEvent, sid)
SuccessMessages == OutLine("SUCCESS_MESSAGES", NoEvent, "")
Failure(err) == OutLine("FAILURE", NoEvent, err)

\* for (const block of content): text blocks are printed, tool_use only logged
RECURSIVE BlockLines(_)
BlockLines(blocks) ==
    IF blocks = <<>> THEN <<>>
    ELSE IF Head(blocks).type = "text"
           THEN <<ContentLine(Head(blocks).text)>> \o BlockLines(Tail(blocks))
           ELSE BlockLines(Tail(blocks))

\* the body of the for-await loop (479-507, 1087-1115)
EventLinesNoContent(msg) ==
    <<Message(msg)>>
    \o (IF msg.type = "system" /\ msg.session_id # ""
          THEN <<SessionIdLine(msg.session_id)>> ELSE <<>>)
EventLines(msg) ==
    <<Message(msg)>>
    \o (IF msg.type = "assistant"
          THEN IF msg.content.kind = "array" THEN BlockLines(msg.content.blocks)
               ELSE IF msg.content.kind = "string"
                      THEN <<ContentLine(msg.content.str)>>
               ELSE <<>>
          ELSE <<>>)
    \o (IF msg.type = "system" /\ msg.session_id # ""
          THEN <<SessionIdLine(msg.session_id)>> ELSE <<>>)

\* catch (error) { console.log(JSON.stringify({success: false, error})) }
CatchAfterMessageEnd(o, err) == o \o <<MessageEnd, Failure(err)>>
CatchSilently(o, err) == o
Catch(o, err) == Append(o, Failure(err))

\* console.log('[MESSAGE_END]'); console.log(JSON.stringify({success: true, sessionId}))
EndOfExchangeSwapped(o, sid) == o \o <<Success(sid), MessageEnd>>
EndOfExchange(o, sid) == o \o <<MessageEnd, Success(sid)>>

\* if (resumeSessionId && resumeSessionId !== '') console.log('[RESUMING]', ...)
ResumingLines(id) == IF id # "" THEN <<Resuming(id)>> ELSE <<>>

\* fs.appendFileSync(sessionFile, line)
WriteLine(lines, line) == <<line>>
AppendLine(lines, line) == Append(lines, line)

\* persistJsonlMessage(sessionId, cwd, obj) when its writes succeed
persistObj(fs, sid, c, obj, uuid, ts) ==
    LET key == sessionFile(sid, c)
        line == enrichedObj(obj, uuid, sid, ts)
        old == IF key \in DOMAIN fs THEN fs[key] ELSE <<>>
    IN  [k \in DOMAIN fs \cup {key} |->
            IF k = key THEN AppendLine(old, line) ELSE fs[k]]

\* the calls of sendMessageWithAnthropicSDK: obj = { type, message: { content } }
persistJsonlMessageAsUser(fs, sid, c, type, content, uuid, ts) ==
    persistObj(fs, sid, c, Entry("user", content, 0, "", 0), uuid, ts)
persistJsonlMessage(fs, sid, c, type, content, uuid, ts) ==
    persistObj(fs, sid, c, Entry(type, content, 0, "", 0), uuid, ts)

\* loadSessionHistory
loadSessionHistory(fs, sid, c) ==
    LET key == sessionFile(sid, c)
    IN  IF key \notin DOMAIN fs THEN <<>> ELSE HistoryOfLines(fs[key])

\* response.content of a successful response; missing content becomes []
ResponseContents == {<<TextBlock("a")>>, <<>>}

(***************************************************************************)
(* Start of the process: the inputs.                                       *)
(***************************************************************************)
PriorShapes ==
    { BadLine,
      Entry("user", ArrayContent(<<TextBlock("q")>>), 0, "s1", 0),
      Entry("assistant", ArrayContent(<<TextBlock("a")>>), 0, "s1", 0),
      Entry("summary", NoContent, 0, "s1", 0) }

\* earlier entries carry the identifiers they were written with
Stamped(lines) ==
    [i \in 1..Len(lines) |->
        IF lines[i].parsable THEN [lines[i] EXCEPT !.uuid = i] ELSE lines[i]]

EmptyFs == << >>
FsWith(lines) == [k \in {sessionFile("s1", ProjectDir)} |-> Stamped(lines)]

PriorFileSystems ==
    {EmptyFs} \cup {FsWith(ls) : ls \in SeqsUpTo(PriorShapes, MaxPrior)}

OneTranscript ==
    FsWith(<<Entry("user", ArrayContent(<<TextBlock("q")>>), 0, "s1", 0),
             Entry("assistant", ArrayContent(<<TextBlock("a")>>), 0, "s1", 0)>>)

AttachmentLists == {<<>>, <<"image", "file">>, <<"null">>}

BridgeInit ==
    /\ command \in {"send", "sendWithAttachments", "fallback", "getSession"}
                   \cup UnknownCommands
    /\ message \in {"hello", ""}
    /\ resumeSessionId \in {"", "s1"}
    /\ cwd \in {NoCwd, ProjectDir}
    /\ hasApiKey \in BOOLEAN
    /\ baseUrl \in BaseUrls
    /\ command \notin {"send", "sendWithAttachments"} => baseUrl = NoBaseUrl
    /\ attachments \in AttachmentLists
    /\ files0 \in PriorFileSystems
    /\ command \in {"send", "sendWithAttachments"} => files0 \in {EmptyFs, OneTranscript}
    /\ command # "sendWithAttachments" => attachments = <<>>
    /\ command \in {"fallback", "getSession"} => hasApiKey
    /\ command \in UnknownCommands =>
         message = "" /\ resumeSessionId = "" /\ cwd = NoCwd /\ files0 = EmptyFs
    /\ command = "getSession" => message = "hello"
    /\ files = files0
    /\ uuidNext = MaxPrior + 1
    /\ now = 0
    /\ pc = "start"
    /\ out = <<>>
    /\ received = <<>>
    /\ currentSessionId = ""
    /\ timer = "unset"
    /\ outcome = "running"
    /\ messagesForApi = <<>>
    /\ sessionMessages = <<>>
    /\ exitCode = NoExit

BridgeIdle ==
    /\ command = "none"
    /\ message = ""
    /\ resumeSessionId = ""
    /\ cwd = NoCwd
    /\ hasApiKey = FALSE
    /\ baseUrl = NoBaseUrl
    /\ attachments = <<>>
    /\ files0 = EmptyFs
    /\ files = EmptyFs
    /\ uuidNext = 0
    /\ now = 0
    /\ pc = "idle"
    /\ out = <<>>
    /\ received = <<>>
    /\ currentSessionId = ""
    /\ timer = "unset"
    /\ outcome = "running"
    /\ messagesForApi = <<>>
    /\ sessionMessages = <<>>
    /\ exitCode = NoExit

(***************************************************************************)
(* PersistSpec: persistJsonlMessage called again and again on the session  *)
(* files of one project, while the clock of new Date() advances.           *)
(*   pFiles   session file key -> lines                                    *)
(*   pClock   the millisecond new Date() reads                             *)
(*   pUuid    the last identifier randomUUID() handed out                  *)
(*   pCalls   the calls made so far: the obj given, the session, whether   *)
(*            the write went through, and the clock at the call            *)
(***************************************************************************)
VARIABLES pFiles, pClock, pUuid, pCalls

persistVars == <<pFiles, pClock, pUuid, pCalls>>

MaxAppends == 3
MaxClock == 2

\* logical entries: two plain ones, and one that brings metadata of its own
PersistObjs ==
    { Entry("user", ArrayContent(<<TextBlock("q")>>), 0, "", 0),
      Entry("assistant", ArrayContent(<<TextBlock("a")>>), 0, "", 0),
      Entry("user", ArrayContent(<<TextBlock("q")>>), 100, "s9", 100) }

PersistInit ==
    /\ pFiles = EmptyFs
    /\ pClock = 1
    /\ pUuid = 0
    /\ pCalls = <<>>

PersistIdle ==
    /\ pFiles = EmptyFs
    /\ pClock = 0
    /\ pUuid = 0
    /\ pCalls = <<>>

\* one call of persistJsonlMessage; a failed mkdir or append is swallowed
PersistCall ==
    /\ Len(pCalls) < MaxAppends
    /\ \E obj \in PersistObjs, sid \in {"s1", "s2"}, written \in BOOLEAN :
         /\ pUuid' = pUuid + 1
         /\ pFiles' = IF written
                        THEN persistObj(pFiles, sid, ProjectDir, obj, pUuid + 1, pClock)
                        ELSE pFiles
         /\ pCalls' = Append(pCalls, [obj |-> obj, sid |-> sid, written |-> written,
                                      at |-> pClock])
    /\ pClock' = pClock

\* a millisecond passes
PersistClock ==
    /\ pClock < MaxClock
    /\ pClock' = pClock + 1
    /\ UNCHANGED <<pFiles, pUuid, pCalls>>

(***************************************************************************)
(* KeySpec: setupApiKey (97-136) on a settings file and an environment.    *)
(*   kSettings  settings.env of ~/.claude/settings.json; a field that is   *)
(*              missing (or the whole file) reads as "" / <<>>             *)
(*   kEnv       process.env, which setupApiKey also writes; kEnv0 at start *)
(*   kResult    what setupApiKey returned, kPc whether it returned         *)
(***************************************************************************)
VARIABLES kSettings, kEnv, kEnv0, kResult, kPc

keyVars == <<kSettings, kEnv, kEnv0, kResult, kPc>>

NoKey == ""
NoResult ==
    [apiKey |-> NoKey, baseUrl |-> NoBaseUrl, apiKeySource |-> "", baseUrlSource |-> ""]

\* the choice of key and endpoint; an apiKey of NoKey makes setupApiKey throw
setupApiKeyEnvFirst(settings, env) ==
    [apiKey |-> IF env.ANTHROPIC_API_KEY # NoKey THEN env.ANTHROPIC_API_KEY
                ELSE IF settings.ANTHROPIC_API_KEY # NoKey THEN settings.ANTHROPIC_API_KEY
                ELSE settings.ANTHROPIC_AUTH_TOKEN,
     apiKeySource |-> IF env.ANTHROPIC_API_KEY # NoKey THEN "environment"
                      ELSE IF settings.ANTHROPIC_API_KEY # NoKey THEN "settings.json"
                      ELSE IF settings.ANTHROPIC_AUTH_TOKEN # NoKey THEN "settings.json"
                      ELSE "default",
     baseUrl |-> IF env.ANTHROPIC_BASE_URL # NoBaseUrl THEN env.ANTHROPIC_BASE_URL
                 ELSE settings.ANTHROPIC_BASE_URL,
     baseUrlSource |-> IF env.ANTHROPIC_BASE_URL # NoBaseUrl THEN "environment"
                       ELSE IF settings.ANTHROPIC_BASE_URL # NoBaseUrl THEN "settings.json"
                       ELSE "default"]
setupApiKey(settings, env) ==
    [apiKey |-> IF settings.ANTHROPIC_API_KEY # NoKey THEN settings.ANTHROPIC_API_KEY
                ELSE IF settings.ANTHROPIC_AUTH_TOKEN # NoKey THEN settings.ANTHROPIC_AUTH_TOKEN
                ELSE IF env.ANTHROPIC_API_KEY # NoKey THEN env.ANTHROPIC_API_KEY
                ELSE NoKey,
     apiKeySource |-> IF settings.ANTHROPIC_API_KEY # NoKey THEN "settings.json"
                      ELSE IF settings.ANTHROPIC_AUTH_TOKEN # NoKey THEN "settings.json"
                      ELSE IF env.ANTHROPIC_API_KEY # NoKey THEN "environment"
                      ELSE "default",
     baseUrl |-> IF settings.ANTHROPIC_BASE_URL # NoBaseUrl THEN settings.ANTHROPIC_BASE_URL
                 ELSE IF env.ANTHROPIC_BASE_URL # NoBaseUrl THEN env.ANTHROPIC_BASE_URL
                 ELSE NoBaseUrl,
     baseUrlSource |-> IF settings.ANTHROPIC_BASE_URL # NoBaseUrl THEN "settings.json"
                       ELSE IF env.ANTHROPIC_BASE_URL # NoBaseUrl THEN "environment"
                       ELSE "default"]

KeyValues == {NoKey, "sk-1", "sk-2"}
UrlValues == {NoBaseUrl, Https \o ApiAnthropicCom, Https \o <<"p", "r", "o", "x", "y">>}

KeyInit ==
    /\ kSettings \in [ANTHROPIC_API_KEY : KeyValues, ANTHROPIC_AUTH_TOKEN : KeyValues,
                      ANTHROPIC_BASE_URL : UrlValues]
    /\ kEnv0 \in [ANTHROPIC_API_KEY : KeyValues, ANTHROPIC_BASE_URL : UrlValues]
    /\ kEnv = kEnv0
    /\ kResult = NoResult
    /\ kPc = "start"

KeyIdle ==
    /\ kSettings = [ANTHROPIC_API_KEY |-> NoKey, ANTHROPIC_AUTH_TOKEN |-> NoKey,
                    ANTHROPIC_BASE_URL |-> NoBaseUrl]
    /\ kEnv0 = [ANTHROPIC_API_KEY |-> NoKey, ANTHROPIC_BASE_URL |-> NoBaseUrl]
    /\ kEnv = kEnv0
    /\ kResult = NoResult
    /\ kPc = "idle"

\* one call of setupApiKey: throws without a key, else exports the choice
\* to process.env and returns it
SetupApiKeyCall ==
    /\ kPc = "start"
    /\ LET r == setupApiKey(kSettings, kEnv)
       IN  IF r.apiKey = NoKey
             THEN /\ kPc' = "threw"
                  /\ UNCHANGED <<kEnv, kResult>>
             ELSE /\ kPc' = "returned"
                  /\ kResult' = r
                  /\ kEnv' = [ANTHROPIC_API_KEY |-> r.apiKey,
                              ANTHROPIC_BASE_URL |->
                                  IF r.baseUrl # NoBaseUrl THEN r.baseUrl
                                  ELSE kEnv.ANTHROPIC_BASE_URL]
    /\ UNCHANGED <<kSettings, kEnv0>>

(***************************************************************************)
(* WorkdirSpec: selectWorkingDirectory (220-260) on a Unix-like platform,  *)
(* with absolute paths.                                                    *)
(*   wRequestedCwd    the requestedCwd argument (<<>>: absent)             *)
(*   wEnvProjectPath  IDEA_PROJECT_PATH || PROJECT_PATH (<<>>: not set)    *)
(*   wProcessCwd      process.cwd()                                        *)
(*   wHomedir         homedir()                                            *)
(*   wDirectories     the paths that are directories on disk               *)
(*   wSelected        the path returned, wPc whether it returned           *)
(***************************************************************************)
VARIABLES wRequestedCwd, wEnvProjectPath, wProcessCwd, wHomedir, wDirectories,
          wSelected, wPc

workdirVars == <<wRequestedCwd, wEnvProjectPath, wProcessCwd, wHomedir,
                 wDirectories, wSelected, wPc>>

NoPath == <<>>
SentinelUndefined == <<"u", "n", "d", "e", "f", "i", "n", "e", "d">>
SentinelNull == <<"n", "u", "l", "l">>
TmpX == <<"/", "t", "m", "p", "/", "x">>
UserHome == <<"/", "u">>
BlankPath == <<" ", " ">>

\* getTempPathPrefixes on Unix, with os.tmpdir() = '/tmp' and TMPDIR not set
getTempPathPrefixes ==
    { <<"/", "t", "m", "p">>,
      <<"/", "v", "a", "r", "/", "t", "m", "p">>,
      <<"/", "p", "r", "i", "v", "a", "t", "e", "/", "t", "m", "p">> }

\* normalizePathForComparison: backslashes become slashes
normalizePathForComparison(pathValue) ==
    [i \in 1..Len(pathValue) |-> IF pathValue[i] = "\\" THEN "/" ELSE pathValue[i]]

\* path.resolve of an absolute path: a trailing slash goes
resolve(pathValue) ==
    IF Len(pathValue) > 1 /\ pathValue[Len(pathValue)] = "/"
      THEN SubSeq(pathValue, 1, Len(pathValue) - 1)
      ELSE pathValue

\* sanitizePath; NoPath stands for null
sanitizePath(candidate) ==
    IF candidate = NoPath \/ trim(candidate) = <<>> THEN NoPath
    ELSE resolve(trim(candidate))

\* isTempDirectory
isTempDirectory(pathValue) ==
    IF pathValue = NoPath THEN FALSE
    ELSE \E tempPath \in getTempPathPrefixes :
            startsWith(normalizePathForComparison(pathValue), tempPath)

\* if (isTempDirectory(normalized) && envProjectPath) continue
skipsTempAlways(normalized, envProjectPath) == isTempDirectory(normalized)
skipsTemp(normalized, envProjectPath) ==
    isTempDirectory(normalized) /\ envProjectPath # NoPath

\* the candidates pushed, in order
candidatesOf(requestedCwd, envProjectPath, processCwd, home) ==
    (IF requestedCwd # NoPath /\ requestedCwd # SentinelUndefined
        /\ requestedCwd # SentinelNull
       THEN <<requestedCwd>> ELSE <<>>)
    \o (IF envProjectPath # NoPath THEN <<envProjectPath>> ELSE <<>>)
    \o <<processCwd, home>>

\* the for loop: the first candidate that is kept and is a directory
RECURSIVE firstDirectory(_, _, _)
firstDirectory(candidates, envProjectPath, directories) ==
    IF candidates = <<>> THEN NoPath
    ELSE LET normalized == sanitizePath(Head(candidates))
         IN  IF normalized = NoPath
               THEN firstDirectory(Tail(candidates), envProjectPath, directories)
             ELSE IF skipsTemp(normalized, envProjectPath)
               THEN firstDirectory(Tail(candidates), envProjectPath, directories)
             ELSE IF normalized \in directories
               THEN normalized
             ELSE firstDirectory(Tail(candidates), envProjectPath, directories)

\* selectWorkingDirectory
selectWorkingDirectory(requestedCwd, envProjectPath, processCwd, home, directories) ==
    LET found == firstDirectory(candidatesOf(requestedCwd, envProjectPath, processCwd, home),
                                envProjectPath, directories)
    IN  IF found # NoPath THEN found
        ELSE IF envProjectPath # NoPath THEN envProjectPath
        ELSE home

RequestedPaths ==
    { NoPath, SentinelUndefined, SentinelNull, TmpX, ProjectDir,
      <<" ">> \o ProjectDir \o <<"/", " ">>, BlankPath }

WorkdirInit ==
    /\ wRequestedCwd \in RequestedPaths
    /\ wEnvProjectPath \in {NoPath, ProjectDir, TmpX}
    /\ wProcessCwd \in {ProcessCwd, TmpX}
    /\ wHomedir \in {UserHome, TmpX}
    /\ wDirectories \in SUBSET {ProjectDir, ProcessCwd, UserHome, TmpX}
    /\ wSelected = NoPath
    /\ wPc = "start"

WorkdirIdle ==
    /\ wRequestedCwd = NoPath
    /\ wEnvProjectPath = NoPath
    /\ wProcessCwd = ProcessCwd
    /\ wHomedir = UserHome
    /\ wDirectories = {}
    /\ wSelected = NoPath
    /\ wPc = "idle"

SelectCall ==
    /\ wPc = "start"
    /\ wSelected' = selectWorkingDirectory(wRequestedCwd, wEnvProjectPath, wProcessCwd,
                                           wHomedir, wDirectories)
    /\ wPc' = "selected"
    /\ UNCHANGED <<wRequestedCwd, wEnvProjectPath, wProcessCwd, wHomedir, wDirectories>>

(***************************************************************************)
(* ModelSpec: mapModelIdToSdkName (267-285).                               *)
(*   mModelId  the argument: a string, undefined, or a value of another    *)
(*             type (str is <<>> when it is not a string)                  *)
(*   mSdkName  the name returned, mPc whether it returned                  *)
(***************************************************************************)
VARIABLES mModelId, mSdkName, mPc

modelVars == <<mModelId, mSdkName, mPc>>

MaxFragments == 2

Opus == <<"o", "p", "u", "s">>
Haiku == <<"h", "a", "i", "k", "u">>

StringId(str) == [kind |-> "string", str |-> str]
UndefinedId == [kind |-> "undefined", str |-> <<>>]
NumberId == [kind |-> "number", str |-> <<>>]

\* mapModelIdToSdkName
mapModelIdCaseSensitive(modelId) ==
    IF modelId.kind # "string" \/ modelId.str = <<>> THEN "sonnet"
    ELSE IF includes(modelId.str, Opus) THEN "opus"
    ELSE IF includes(modelId.str, Haiku) THEN "haiku"
    ELSE "sonnet"
mapModelIdToSdkName(modelId) ==
    IF modelId.kind # "string" \/ modelId.str = <<>> THEN "sonnet"
    ELSE LET lowerModel == toLowerCase(modelId.str)
         IN  IF includes(lowerModel, Opus) THEN "opus"
             ELSE IF includes(lowerModel, Haiku) THEN "haiku"
             ELSE "sonnet"

\* model identifiers are put together from these pieces
ModelFragments ==
    { Opus, <<"O", "P", "U", "S">>, <<"o", "p">>, <<"u", "s">>,
      Haiku, <<"H", "a", "i", "K", "u">>,
      <<"s", "o", "n", "n", "e", "t">>, <<"c", "l", "a", "u", "d", "e", "-">>,
      <<"-", "4">>, <<"g", "p", "t">> }

RECURSIVE Concat(_)
Concat(seqs) == IF seqs = <<>> THEN <<>> ELSE Head(seqs) \o Concat(Tail(seqs))

ModelIds ==
    {UndefinedId, NumberId}
      \cup {StringId(Concat(fs)) : fs \in SeqsUpTo(ModelFragments, MaxFragments)}

ModelInit ==
    /\ mModelId \in ModelIds
    /\ mSdkName = ""
    /\ mPc = "start"

ModelIdle ==
    /\ mModelId = UndefinedId
    /\ mSdkName = ""
    /\ mPc = "idle"

MapCall ==
    /\ mPc = "start"
    /\ mSdkName' = mapModelIdToSdkName(mModelId)
    /\ mPc' = "mapped"
    /\ mModelId' = mModelId

(***************************************************************************)
(* AttachSpec: loadAttachments (802-820) with loadAttachmentsFromEnv       *)
(* (731-743), then the content blocks sendMessageWithAttachments builds    *)
(* from what was loaded (937-988).                                         *)
(*   aStdinData    what readStdinData resolved with: null, an array, an    *)
(*                 object with an attachments field, another value         *)
(*   aFile         the file CLAUDE_ATTACHMENTS_FILE names: not set, a JSON *)
(*                 array, other JSON, unreadable                           *)
(*   aMessage      args[0], the user's text (<<>>: empty or missing)       *)
(*   aAttachments  what loadAttachments returned                           *)
(*   aContent      message.content of the user message built               *)
(*   aPc           start, loaded, built, or threw                          *)
(***************************************************************************)
VARIABLES aStdinData, aFile, aMessage, aAttachments, aContent, aPc

attachVars == <<aStdinData, aFile, aMessage, aAttachments, aContent, aPc>>

MaxAttachments == 2

ImagePrefix == <<"i", "m", "a", "g", "e", "/">>
ImagePng == ImagePrefix \o <<"p", "n", "g">>
TextPlain == <<"t", "e", "x", "t", "/", "p", "l", "a", "i", "n">>
NoMediaType == <<>>

\* an attachment; isNull marks an element that is null, stringType is
\* typeof a.mediaType === 'string', fileName "" a missing file name
Attachment(mt, isString, name, data) ==
    [isNull |-> FALSE, mediaType |-> mt, stringType |-> isString,
     fileName |-> name, data |-> data]
NullAttachment ==
    [isNull |-> TRUE, mediaType |-> NoMediaType, stringType |-> FALSE,
     fileName |-> "", data |-> ""]

AttachmentShapes ==
    { Attachment(ImagePng, TRUE, "a.png", "d1"),
      Attachment(TextPlain, TRUE, "n.txt", "d2"),
      Attachment(<<"i", "m", "a", "g", "e">>, TRUE, "", "d3"),
      Attachment(ImagePng, FALSE, "", "d4"),
      NullAttachment }

\* stdinData and the legacy file
NullData == [kind |-> "null", items |-> <<>>]
ArrayData(items) == [kind |-> "array", items |-> items]
WrappedData(items) == [kind |-> "wrapped", items |-> items]
OtherData == [kind |-> "other", items |-> <<>>]
FileNotSet == [kind |-> "unset", items |-> <<>>]
FileArray(items) == [kind |-> "array", items |-> items]
FileOtherJson == [kind |-> "other", items |-> <<>>]
FileUnreadable == [kind |-> "unreadable", items |-> <<>>]

\* loadAttachmentsFromEnv
loadAttachmentsFromEnv(file) ==
    IF file.kind = "array" THEN file.items ELSE <<>>

\* loadAttachments
loadAttachments(stdinData, file) ==
    IF stdinData.kind = "array" THEN stdinData.items
    ELSE IF stdinData.kind = "wrapped" THEN stdinData.items
    ELSE loadAttachmentsFromEnv(file)

\* content blocks; a text is the user's message, the name of an attachment
\* in its bracket, or one of the three synthesized placeholders
Block(type, mt, data, text) ==
    [type |-> type, media_type |-> mt, data |-> data, text |-> text]
Text(kind, chars, name, count) ==
    [kind |-> kind, chars |-> chars, name |-> name, count |-> count]
MessageText(chars) == Text("message", chars, "", 0)
AttachmentText(name) == Text("attachment", <<>>, name, 0)
ImagesUploadedText(n) == Text("imagesUploaded", <<>>, "", n)
AttachmentsUploadedText == Text("attachmentsUploaded", <<>>, "", 0)
EmptyMessageText == Text("emptyMessage", <<>>, "", 0)
DefaultName == "attachment"

\* the block pushed for one attachment
blockOf(a) ==
    LET mt == IF a.stringType THEN a.mediaType ELSE NoMediaType
    IN  IF startsWith(mt, ImagePrefix)
          THEN Block("image", mt, a.data, MessageText(<<>>))
          ELSE Block("text", NoMediaType, "",
                     AttachmentText(IF a.fileName # "" THEN a.fileName ELSE DefaultName))

CountOf(blocks, type) == Cardinality({i \in DOMAIN blocks : blocks[i].type = type})

\* userText
userTextVerbatim(msg, contentBlocks) == MessageText(msg)
userText(msg, contentBlocks) ==
    IF msg = <<>> \/ trim(msg) = <<>>
      THEN IF CountOf(contentBlocks, "image") > 0
             THEN ImagesUploadedText(CountOf(contentBlocks, "image"))
           ELSE IF CountOf(contentBlocks, "text") > 0
             THEN AttachmentsUploadedText
           ELSE EmptyMessageText
      ELSE MessageText(msg)

\* contentBlocks of the user message
contentBlocksOf(as, msg) ==
    LET blocks == [i \in 1..Len(as) |-> blockOf(as[i])]
    IN  Append(blocks, Block("text", NoMediaType, "", userText(msg, blocks)))

hasNullElement(as) == \E i \in DOMAIN as : as[i].isNull

Messages == {<<>>, <<" ", " ">>, <<"h", "i">>, <<" ", "h", "i", " ">>}
FileLists ==
    { <<>>,
      <<Attachment(TextPlain, TRUE, "legacy.txt", "d5")>>,
      <<Attachment(TextPlain, TRUE, "legacy.txt", "d5"),
        Attachment(ImagePng, TRUE, "legacy.png", "d6")>> }

AttachInit ==
    /\ aStdinData \in {NullData, OtherData}
          \cup {ArrayData(l) : l \in SeqsUpTo(AttachmentShapes, MaxAttachments)}
          \cup {WrappedData(l) : l \in SeqsUpTo(AttachmentShapes, MaxAttachments)}
    /\ aFile \in {FileNotSet, FileOtherJson, FileUnreadable}
          \cup {FileArray(l) : l \in FileLists}
    /\ aMessage \in Messages
    /\ aAttachments = <<>>
    /\ aContent = <<>>
    /\ aPc = "start"

AttachIdle ==
    /\ aStdinData = NullData
    /\ aFile = FileNotSet
    /\ aMessage = <<>>
    /\ aAttachments = <<>>
    /\ aContent = <<>>
    /\ aPc = "idle"

\* const attachments = await loadAttachments(stdinData)
LoadCall ==
    /\ aPc = "start"
    /\ aAttachments' = loadAttachments(aStdinData, aFile)
    /\ aPc' = "loaded"
    /\ UNCHANGED <<aStdinData, aFile, aMessage, aContent>>

\* the blocks are built; a.mediaType of a null element throws
BuildCall ==
    /\ aPc = "loaded"
    /\ IF hasNullElement(aAttachments)
         THEN /\ aPc' = "threw"
              /\ aContent' = aContent
         ELSE /\ aPc' = "built"
              /\ aContent' = contentBlocksOf(aAttachments, aMessage)
    /\ UNCHANGED <<aStdinData, aFile, aMessage, aAttachments>>

(***************************************************************************)
(* The options sendMessage (418-448) and sendMessageWithAttachments        *)
(* (1037-1056) hand to query(), built from the same arguments in the same  *)
(* environment.  Paths are plain strings here: the code only tests them    *)
(* for existence.                                                          *)
(*   oPermissionMode  the permissionMode argument (NullMode when omitted)  *)
(*   oModel           the model argument                                   *)
(*   oResume          the resumeSessionId argument ("" when omitted)       *)
(*   oIdeaPath, oProjectPath  IDEA_PROJECT_PATH and PROJECT_PATH ("":      *)
(*                    not set)                                             *)
(*   oWhich, oWhere   what which claude / where claude print; CommandFails *)
(*                    when execSync throws                                 *)
(*   oExisting        the paths existsSync answers true for                *)
(*   oSend, oAttach   the options built by either function, NoOptions      *)
(*                    before                                               *)
(***************************************************************************)
VARIABLES oPermissionMode, oModel, oResume, oIdeaPath, oProjectPath, oWhich,
          oWhere, oExisting, oSend, oAttach

optionVars == <<oPermissionMode, oModel, oResume, oIdeaPath, oProjectPath,
                oWhich, oWhere, oExisting, oSend, oAttach>>

NullMode == "<null>"
PermissionModes == {NullMode, "", "default", "plan", "bypassPermissions"}
CommandFails == "<throws>"
WorkingDirectory == "/work"
OtherProject == "/proj"
FoundPath == "/opt/bin/claude"
UsrBinClaude == "/usr/bin/claude"
WindowsClaude == "C:\\Program Files\\Claude\\claude.exe"
Home == "/home/u"
Username == "u"
NoPathFound == "<undefined>"
NoOptions == [built |-> FALSE]

\* commonPaths of sendMessage (396-403) and of sendMessageWithAttachments
\* (1014-1019)
commonPathsSend ==
    << "/usr/local/bin/claude", UsrBinClaude,
       "/home/u/.nvm/versions/node/v24.11.1/bin/claude",
       "/home/u/.local/bin/claude",
       WindowsClaude,
       "C:\\Users\\u\\AppData\\Local\\Programs\\Claude\\claude.exe" >>
commonPathsAttach ==
    << "/usr/local/bin/claude", UsrBinClaude,
       "/home/u/.nvm/versions/node/v24.11.1/bin/claude",
       "/home/u/.local/bin/claude" >>

\* getClaudeCliPath: which, then where, then the first existing common path
firstExisting(paths, existing) ==
    LET hits == {i \in DOMAIN paths : paths[i] \in existing}
    IN  IF hits = {} THEN NoPathFound
        ELSE paths[CHOOSE i \in hits : \A j \in hits : i <= j]

getClaudeCliPath(which, where, existing, commonPaths) ==
    IF which # CommandFails /\ which # "" /\ which \in existing THEN which
    ELSE IF where # CommandFails /\ where # "" /\ where \in existing THEN where
    ELSE firstExisting(commonPaths, existing)

\* Array.from(new Set([...].filter(Boolean)))
RECURSIVE uniqueTruthy(_)
uniqueTruthy(xs) ==
    IF xs = <<>> THEN <<>>
    ELSE LET init == uniqueTruthy(SubSeq(xs, 1, Len(xs) - 1))
             x == xs[Len(xs)]
         IN  IF x = "" \/ (\E i \in DOMAIN init : init[i] = x) THEN init
             ELSE Append(init, x)

\* canUseTool: permissionMode === 'default' ? canUseTool : undefined
passesCanUseTool(mode) == mode = "default"

\* the options object and options.resume
optionsOf(mode, model, resume, idea, project, cliPath) ==
    [built |-> TRUE,
     cwd |-> WorkingDirectory,
     permissionMode |-> IF mode \in {NullMode, ""} THEN "default" ELSE mode,
     model |-> mapModelIdToSdkName(model),
     maxTurns |-> 100,
     additionalDirectories |-> uniqueTruthy(<<WorkingDirectory, idea, project>>),
     canUseTool |-> passesCanUseTool(mode),
     pathToClaudeCodeExecutable |-> cliPath,
     resume |-> resume]

OptionsInit ==
    /\ oPermissionMode \in PermissionModes
    /\ oModel \in {UndefinedId, StringId(<<"O", "P", "U", "S">>)}
    /\ oResume \in {"", "s1"}
    /\ oIdeaPath \in {"", WorkingDirectory, OtherProject}
    /\ oProjectPath \in {"", OtherProject}
    /\ oWhich \in {CommandFails, "", FoundPath}
    /\ oWhere \in {CommandFails, FoundPath}
    /\ oExisting \in SUBSET {FoundPath, UsrBinClaude, WindowsClaude}
    /\ oSend = NoOptions
    /\ oAttach = NoOptions

OptionsIdle ==
    /\ oPermissionMode = NullMode
    /\ oModel = UndefinedId
    /\ oResume = ""
    /\ oIdeaPath = ""
    /\ oProjectPath = ""
    /\ oWhich = CommandFails
    /\ oWhere = CommandFails
    /\ oExisting = {}
    /\ oSend = NoOptions
    /\ oAttach = NoOptions

\* sendMessage builds its options
SendOptionsCall ==
    /\ oSend = NoOptions
    /\ oSend' = optionsOf(oPermissionMode, oModel, oResume, oIdeaPath, oProjectPath,
                          getClaudeCliPath(oWhich, oWhere, oExisting, commonPathsSend))
    /\ UNCHANGED <<oPermissionMode, oModel, oResume, oIdeaPath, oProjectPath,
                   oWhich, oWhere, oExisting, oAttach>>

\* sendMessageWithAttachments builds its options
AttachOptionsCall ==
    /\ oAttach = NoOptions
    /\ oAttach' = optionsOf(oPermissionMode, oModel, oResume, oIdeaPath, oProjectPath,
                            getClaudeCliPath(oWhich, oWhere, oExisting, commonPathsAttach))
    /\ UNCHANGED <<oPermissionMode, oModel, oResume, oIdeaPath, oProjectPath,
                   oWhich, oWhere, oExisting, oSend>>

(***************************************************************************)
(* readStdinData (750-792).                                                *)
(*   rUseStdin  CLAUDE_USE_STDIN === 'true'                                *)
(*   rData      the characters received so far                             *)
(*   rResult    what the promise holds: Unresolved, NoData (null) or the   *)
(*              parsed payload                                             *)
(*   rTimeout   the 5 second timer: unset, armed, cleared, fired           *)
(*   rNow       milliseconds since the call                                *)
(*   rEvents    the stream events delivered so far, in order               *)
(***************************************************************************)
VARIABLES rUseStdin, rData, rResult, rTimeout, rNow, rEvents

stdinVars == <<rUseStdin, rData, rResult, rTimeout, rNow, rEvents>>

MaxStdinEvents == 3
StdinTickMs == 2500
StdinTimeoutMs == 5000

Unresolved == "<pending>"
NoData == "<null>"
EmptyArrayPayload == "[]"

\* the chunks standard input may deliver
StdinChunks == { <<" ">>, <<"[", "]">>, <<"[">>, <<"]", " ">>, <<"n", "u", "l", "l">> }

\* the end handler: blank input, JSON.parse and Object.keys(parsed) inside
\* the try; JSON null makes Object.keys throw, which the catch answers
parseStdin(data) ==
    IF trim(data) = <<>> THEN NoData
    ELSE IF trim(data) = <<"[", "]">> THEN EmptyArrayPayload
    ELSE NoData

\* resolve(value): a promise keeps the first value it was resolved with
settleAgain(cur, value) == value
settle(cur, value) == IF cur = Unresolved THEN value ELSE cur

StdinInit ==
    /\ rUseStdin \in BOOLEAN
    /\ rData = <<>>
    /\ rResult = Unresolved
    /\ rTimeout = "unset"
    /\ rNow = 0
    /\ rEvents = <<"new">>

StdinIdle ==
    /\ rUseStdin = FALSE
    /\ rData = <<>>
    /\ rResult = Unresolved
    /\ rTimeout = "unset"
    /\ rNow = 0
    /\ rEvents = <<>>

\* the call: without the flag null is the answer at once; with it the timer
\* is armed, the listeners are registered and the stream is resumed
readStdinData ==
    /\ rEvents = <<"new">>
    /\ rEvents' = <<"called">>
    /\ IF ~rUseStdin
         THEN /\ rResult' = settle(rResult, NoData)
              /\ rTimeout' = rTimeout
         ELSE /\ rTimeout' = "armed"
              /\ rResult' = rResult
    /\ UNCHANGED <<rUseStdin, rData, rNow>>

Listening ==
    /\ rUseStdin
    /\ rEvents # <<"new">>
    /\ Len(rEvents) <= MaxStdinEvents
    /\ \A i \in DOMAIN rEvents : rEvents[i] # "end"

\* process.stdin.on('data')
StdinOnData ==
    /\ Listening
    /\ \E chunk \in StdinChunks : rData' = rData \o chunk
    /\ rEvents' = Append(rEvents, "data")
    /\ UNCHANGED <<rUseStdin, rResult, rTimeout, rNow>>

\* process.stdin.on('end')
StdinOnEnd ==
    /\ Listening
    /\ rTimeout' = IF rTimeout = "armed" THEN "cleared" ELSE rTimeout
    /\ rResult' = settle(rResult, parseStdin(rData))
    /\ rEvents' = Append(rEvents, "end")
    /\ UNCHANGED <<rUseStdin, rData, rNow>>

\* process.stdin.on('error')
StdinOnError ==
    /\ Listening
    /\ \A i \in DOMAIN rEvents : rEvents[i] # "error"
    /\ rTimeout' = IF rTimeout = "armed" THEN "cleared" ELSE rTimeout
    /\ rResult' = settle(rResult, NoData)
    /\ rEvents' = Append(rEvents, "error")
    /\ UNCHANGED <<rUseStdin, rData, rNow>>

\* the timer callback
StdinOnTimeout ==
    /\ rTimeout = "armed" /\ rNow >= StdinTimeoutMs
    /\ rTimeout' = "fired"
    /\ rResult' = settle(rResult, NoData)
    /\ UNCHANGED <<rUseStdin, rData, rNow, rEvents>>

\* time passes; a due timer runs before anything later
StdinTime ==
    /\ rEvents # <<"new">> /\ rEvents # <<>>
    /\ rNow < StdinTimeoutMs + StdinTickMs
    /\ ~(rTimeout = "armed" /\ rNow >= StdinTimeoutMs)
    /\ rNow' = rNow + StdinTickMs
    /\ UNCHANGED <<rUseStdin, rData, rResult, rTimeout, rEvents>>

(***************************************************************************)
(* sendMessageWithAnthropicSDK (531-725) invoked again and again on one    *)
(* session, every time with the session's id as the resume id.  The        *)
(* transcript writes succeed here.                                         *)
(*   sFiles       the transcript store                                     *)
(*   sMessages    messagesForApi of the latest invocation                  *)
(*   sPc          "idle", or "call" while the remote call is outstanding   *)
(*   sOutcomes    how the invocations so far ended                         *)
(***************************************************************************)
VARIABLES sFiles, sMessages, sPc, sOutcomes

sessionVars == <<sFiles, sMessages, sPc, sOutcomes>>

MaxInvocations == 3
SessionId == "s1"
UserTexts == {"hello", "again"}

SessionInit ==
    /\ sFiles = EmptyFs
    /\ sMessages = <<>>
    /\ sPc = "idle"
    /\ sOutcomes = <<"new">>

SessionIdle ==
    /\ sFiles = EmptyFs
    /\ sMessages = <<>>
    /\ sPc = "idle"
    /\ sOutcomes = <<>>

\* 549-566: the user message is persisted, the history is loaded and the
\* current message is put behind it
InvokeCall ==
    /\ sPc = "idle" /\ sOutcomes # <<>> /\ Len(sOutcomes) <= MaxInvocations
    /\ \E text \in UserTexts :
         LET content == ArrayContent(<<TextBlock(text)>>)
             fs == persistJsonlMessage(sFiles, SessionId, ProjectDir, "user", content,
                                       2 * Len(sOutcomes), Len(sOutcomes))
             historyMessages == loadSessionHistory(fs, SessionId, ProjectDir)
             current == [role |-> "user", content |-> content]
         IN  /\ sFiles' = fs
             /\ sMessages' = IF Len(historyMessages) > 0
                               THEN historyMessages \o <<current>>
                               ELSE <<current>>
    /\ sPc' = "call"
    /\ UNCHANGED sOutcomes

\* 655-714: the assistant's content is persisted
RespondCall ==
    /\ sPc = "call"
    /\ \E respContent \in ResponseContents :
         sFiles' = persistJsonlMessage(sFiles, SessionId, ProjectDir, "assistant",
                                       ArrayContent(respContent),
                                       2 * Len(sOutcomes) + 1, Len(sOutcomes))
    /\ sOutcomes' = Append(sOutcomes, "responded")
    /\ sPc' = "idle"
    /\ UNCHANGED sMessages

\* 606-653, 716-724: an error-shaped response or a thrown call
FailCall ==
    /\ sPc = "call"
    /\ \E how \in {"apierror", "callthrew"} : sOutcomes' = Append(sOutcomes, how)
    /\ sPc' = "idle"
    /\ UNCHANGED <<sFiles, sMessages>>

(***************************************************************************)
(* DependencySection (part_000 33-307): its effect that installs the       *)
(* window callbacks, and the install buttons.                              *)
(*   wAppCallback   window._appUpdateDependencyStatus                      *)
(*   wUpdate        window.updateDependencyStatus: Undefined, AppCallback  *)
(*                  or Wrapper (the function the effect installs)          *)
(*   wOthers        whether dependencyInstallProgress, -InstallResult,     *)
(*                  -UninstallResult and nodeEnvironmentStatus are set     *)
(*   dMounted       the component is mounted                               *)
(*   dCaptured      appCallback of the effect that is in force             *)
(*   dLoading, dSdkStatus, dInstallingSdk, dNodeAvailable   the component's *)
(*                  state                                                  *)
(*   dOutstanding   the SDKs whose installation was requested and whose    *)
(*                  result has not arrived                                 *)
(*   dReceived, dForwarded   status updates the wrapper got, and those it  *)
(*                  passed on                                              *)
(*   dEffects       how many times the effect has run                      *)
(***************************************************************************)
VARIABLES wAppCallback, wUpdate, wOthers, dMounted, dCaptured, dLoading, dSdkStatus,
          dInstallingSdk, dNodeAvailable, dOutstanding, dReceived, dForwarded,
          dEffects

depVars == <<wAppCallback, wUpdate, wOthers, dMounted, dCaptured, dLoading, dSdkStatus,
             dInstallingSdk, dNodeAvailable, dOutstanding, dReceived, dForwarded,
             dEffects>>

MaxEffects == 3
MaxUpdates == 2

Undefined == "undefined"
AppCallback == "app callback"
Wrapper == "wrapper"
NoSdk == "null"
SdkIds == {"claude-sdk", "codex-sdk"}
NodeUnknown == "null"
NoStatus == "{}"

\* what the cleanup puts back in window.updateDependencyStatus
restoredUndefined(appCallback) == Undefined
restoredCallback(appCallback) ==
    IF appCallback # Undefined THEN appCallback ELSE Undefined

\* the application has registered its callback, or has none, before the
\* section is first mounted
AppRegistration ==
    /\ wAppCallback \in {Undefined, AppCallback}
    /\ wUpdate = wAppCallback

DepInit ==
    /\ AppRegistration
    /\ wOthers = FALSE
    /\ dMounted = FALSE
    /\ dCaptured = Undefined
    /\ dLoading = TRUE
    /\ dSdkStatus = NoStatus
    /\ dInstallingSdk = NoSdk
    /\ dNodeAvailable = NodeUnknown
    /\ dOutstanding = {}
    /\ dReceived = 0
    /\ dForwarded = 0
    /\ dEffects = 0

DepIdle ==
    /\ wAppCallback = Undefined
    /\ wUpdate = Undefined
    /\ wOthers = FALSE
    /\ dMounted = FALSE
    /\ dCaptured = Undefined
    /\ dLoading = TRUE
    /\ dSdkStatus = NoStatus
    /\ dInstallingSdk = NoSdk
    /\ dNodeAvailable = NodeUnknown
    /\ dOutstanding = {}
    /\ dReceived = 0
    /\ dForwarded = 0
    /\ dEffects = MaxEffects

\* the effect body (52-128)
EffectRuns ==
    /\ dCaptured' = wAppCallback
    /\ wUpdate' = Wrapper
    /\ wOthers' = TRUE
    /\ dEffects' = dEffects + 1

\* the cleanup (130-141)
CleanupRuns ==
    /\ wUpdate' = restoredCallback(dCaptured)
    /\ wOthers' = FALSE

\* the component is mounted: fresh state, then the effect
DepMount ==
    /\ ~dMounted /\ dEffects < MaxEffects
    /\ dMounted' = TRUE
    /\ dLoading' = TRUE
    /\ dSdkStatus' = NoStatus
    /\ dInstallingSdk' = NoSdk
    /\ dNodeAvailable' = NodeUnknown
    /\ EffectRuns
    /\ UNCHANGED <<wAppCallback, dOutstanding, dReceived, dForwarded>>

\* addToast or t changed: the cleanup of the old effect, then the effect
\* again; the state is kept
DepRerun ==
    /\ dMounted /\ dEffects < MaxEffects
    /\ dCaptured' = wAppCallback
    /\ wUpdate' = Wrapper
    /\ wOthers' = TRUE
    /\ dEffects' = dEffects + 1
    /\ UNCHANGED <<wAppCallback, dMounted, dLoading, dSdkStatus, dInstallingSdk, dNodeAvailable,
                   dOutstanding, dReceived, dForwarded>>

\* the component is unmounted: the cleanup
DepUnmount ==
    /\ dMounted
    /\ dMounted' = FALSE
    /\ CleanupRuns
    /\ UNCHANGED <<wAppCallback, dCaptured, dLoading, dSdkStatus, dInstallingSdk, dNodeAvailable,
                   dOutstanding, dReceived, dForwarded, dEffects>>

\* the host calls window.updateDependencyStatus(jsonStr) while the wrapper
\* is installed (55-68)
DepStatusUpdate ==
    /\ wUpdate = Wrapper /\ dReceived < MaxUpdates
    /\ \E parses \in BOOLEAN :
         /\ dLoading' = FALSE
         /\ dSdkStatus' = IF parses THEN "status" ELSE dSdkStatus
         /\ dReceived' = dReceived + 1
         /\ dForwarded' = IF dCaptured # Undefined THEN dForwarded + 1 ELSE dForwarded
    /\ UNCHANGED <<wAppCallback, wUpdate, wOthers, dMounted, dCaptured,
                   dInstallingSdk, dNodeAvailable, dOutstanding, dEffects>>

\* the host calls window.nodeEnvironmentStatus (118-125)
DepNodeStatus ==
    /\ wOthers /\ dNodeAvailable = NodeUnknown
    /\ \E available \in {"true", "false"} : dNodeAvailable' = available
    /\ UNCHANGED <<wAppCallback, wUpdate, wOthers, dMounted, dCaptured, dLoading, dSdkStatus,
                   dInstallingSdk, dOutstanding, dReceived, dForwarded, dEffects>>

\* the install (or update) button of an SDK is shown and enabled (197-241)
InstallEnabled(sdk) ==
    /\ dMounted /\ ~dLoading
    /\ dInstallingSdk # sdk
    /\ dNodeAvailable # "false"

\* handleInstall (144-154)
handleInstall ==
    \E sdk \in SdkIds :
      /\ InstallEnabled(sdk)
      /\ sdk \notin dOutstanding
      /\ dInstallingSdk' = sdk
      /\ dOutstanding' = dOutstanding \cup {sdk}
      /\ UNCHANGED <<wAppCallback, wUpdate, wOthers, dMounted, dCaptured, dLoading, dSdkStatus,
                     dNodeAvailable, dReceived, dForwarded, dEffects>>

\* the host reports the result of an installation; when the callback is
\* set, window.dependencyInstallResult (79-97) runs
dependencyInstallResult ==
    \E sdk \in dOutstanding :
      /\ dOutstanding' = dOutstanding \ {sdk}
      /\ dInstallingSdk' = IF wOthers THEN NoSdk ELSE dInstallingSdk
      /\ UNCHANGED <<wAppCallback, wUpdate, wOthers, dMounted, dCaptured, dLoading, dSdkStatus,
                     dNodeAvailable, dReceived, dForwarded, dEffects>>

(***************************************************************************)
(* The chat view (part_000 App, 348-529): handleSubmit and what it needs.  *)
(*   cMessages   the messages state                                        *)
(*   cLoading    the loading state                                         *)
(*   cBridge     whether window.sendToJava is defined                      *)
(*   cSent       the messages passed to window.sendToJava, in order        *)
(*   cContent, cAttachments   the arguments of the last handleSubmit       *)
(*   cSubmits    how many times handleSubmit was called                    *)
(***************************************************************************)
VARIABLES cMessages, cLoading, cBridge, cSent, cContent, cAttachments, cSubmits

chatVars == <<cMessages, cLoading, cBridge, cSent, cContent, cAttachments, cSubmits>>

MaxSubmits == 2

ChatContents == { <<>>, <<" ">>, <<"h", "i">>, <<" ", "h", " ">> }
ChatImage == Attachment(ImagePng, TRUE, "a.png", "d1")
ChatFile == Attachment(TextPlain, TRUE, "n.txt", "d2")
\* the attachments argument: undefined, or an array
NoAttachmentList == [isArray |-> FALSE, items |-> <<>>]
AttachmentList(items) == [isArray |-> TRUE, items |-> items]
ChatAttachmentLists ==
    { NoAttachmentList, AttachmentList(<<>>), AttachmentList(<<ChatImage>>),
      AttachmentList(<<ChatFile>>), AttachmentList(<<ChatFile, ChatImage>>) }
UploadedContent == "[uploaded]"

\* the display block of one attachment (474-486)
displayBlockOf(att) ==
    IF startsWith(att.mediaType, ImagePrefix)
      THEN [type |-> "image", mediaType |-> att.mediaType, text |-> <<>>, fileName |-> ""]
      ELSE [type |-> "text", mediaType |-> NoMediaType, text |-> <<>>,
            fileName |-> att.fileName]

\* userContentBlocks (469-497)
userContentBlocks(text, atts, hasAttachments) ==
    (IF hasAttachments
       THEN [i \in DOMAIN atts.items |-> displayBlockOf(atts.items[i])]
       ELSE <<>>)
    \o (IF text # <<>>
          THEN << [type |-> "text", mediaType |-> NoMediaType, text |-> text,
                   fileName |-> ""] >>
          ELSE <<>>)

\* sendBridgeMessage (340-346): without window.sendToJava only a warning
sendBridgeMessage(sent, event, payload) ==
    IF cBridge THEN Append(sent, [event |-> event, payload |-> payload]) ELSE sent

ChatInit ==
    /\ cMessages = <<>>
    /\ cLoading = FALSE
    /\ cBridge = FALSE
    /\ cSent = <<>>
    /\ cContent = <<>>
    /\ cAttachments = NoAttachmentList
    /\ cSubmits = 0

ChatIdle ==
    /\ cMessages = <<>>
    /\ cLoading = FALSE
    /\ cBridge = FALSE
    /\ cSent = <<>>
    /\ cContent = <<>>
    /\ cAttachments = NoAttachmentList
    /\ cSubmits = MaxSubmits

\* handleSubmit (459-529); serializes is whether JSON.stringify of the
\* payload returns (it throws a RangeError when the result would exceed the
\* longest string)
handleSubmit ==
    /\ cSubmits < MaxSubmits
    /\ \E content \in ChatContents, atts \in ChatAttachmentLists,
          serializes \in BOOLEAN :
         LET text == trim(content)
             hasAttachments == atts.isArray /\ Len(atts.items) > 0
             blocks == userContentBlocks(text, atts, hasAttachments)
             userMessage ==
                 [type |-> "user",
                  content |-> IF text # <<>> THEN <<"text", text>>
                              ELSE IF hasAttachments THEN <<UploadedContent>>
                              ELSE <<>>,
                  blocks |-> blocks]
         IN  /\ cContent' = content
             /\ cAttachments' = atts
             /\ cSubmits' = cSubmits + 1
             /\ IF (text = <<>> /\ ~hasAttachments) \/ cLoading
                     \/ (text = <<>> /\ blocks = <<>>)
                  THEN UNCHANGED <<cMessages, cSent>>
                  ELSE /\ cMessages' = Append(cMessages, userMessage)
                       /\ cSent' =
                            IF hasAttachments /\ serializes
                              THEN sendBridgeMessage(cSent,
                                     "send_message_with_attachments",
                                     <<text, atts.items>>)
                              ELSE sendBridgeMessage(cSent, "send_message", <<text>>)
    /\ UNCHANGED <<cLoading, cBridge>>

\* window.showLoading (377)
showLoading ==
    /\ \E value \in BOOLEAN : cLoading' = value /\ value # cLoading
    /\ UNCHANGED <<cMessages, cBridge, cSent, cContent, cAttachments, cSubmits>>

\* the host injects window.sendToJava
BridgeInjected ==
    /\ ~cBridge
    /\ cBridge' = TRUE
    /\ UNCHANGED <<cMessages, cLoading, cSent, cContent, cAttachments, cSubmits>>

coreVars == <<streamVars, histVars, bridgeVars, persistVars, keyVars, workdirVars,
              modelVars, attachVars>>
extraVars == <<optionVars, stdinVars, sessionVars, depVars, chatVars>>
ExtraIdle == OptionsIdle /\ StdinIdle /\ SessionIdle /\ DepIdle /\ ChatIdle

vars == <<streamVars, histVars, bridgeVars, persistVars, keyVars, workdirVars,
          modelVars, attachVars, extraVars>>

inputs == <<command, message, resumeSessionId, cwd, hasApiKey, baseUrl, attachments,
            files0>>
others == <<streamVars, histVars, persistVars, keyVars, workdirVars, modelVars,
            attachVars, extraVars>>

(***************************************************************************)
(* sendMessage (310-524) up to the race.                                   *)
(***************************************************************************)
SendMessage ==
    /\ command = "send" /\ pc = "start"
    /\ IF setupApiKeyThrows(hasApiKey)
         THEN \* setupApiKey throws before [MESSAGE_START]
              /\ out' = Catch(out, NoKeyMessage)
              /\ outcome' = "nokey"
              /\ pc' = "done"
              /\ timer' = timer
         ELSE /\ out' = <<MessageStart>> \o ResumingLines(resumeSessionId)
              /\ timer' = "armed"
              /\ pc' = IF deliveryPath(baseUrl) = "native" THEN "race" ELSE "call"
              /\ outcome' = outcome
    /\ UNCHANGED <<inputs, files, uuidNext, now, received, currentSessionId,
                   messagesForApi, sessionMessages, exitCode, others>>

(***************************************************************************)
(* sendMessageWithAttachments (903-1134) up to the race: reading           *)
(* a.mediaType of an element that is null throws inside the try.           *)
(***************************************************************************)
NullElement(as) == \E i \in DOMAIN as : as[i] = "null"

SendMessageWithAttachments ==
    /\ command = "sendWithAttachments" /\ pc = "start"
    /\ IF setupApiKeyThrows(hasApiKey)
         THEN /\ out' = Catch(out, NoKeyMessage)
              /\ outcome' = "nokey"
              /\ pc' = "done"
              /\ timer' = timer
         ELSE IF NullElement(attachments)
           THEN /\ out' = Catch(<<MessageStart>>, "Cannot read properties of null")
                /\ outcome' = "attachment"
                /\ pc' = "done"
                /\ timer' = timer
           ELSE /\ out' = <<MessageStart>> \o ResumingLines(resumeSessionId)
                /\ timer' = "armed"
                /\ pc' = IF deliveryPath(baseUrl) = "native" THEN "race" ELSE "call"
                /\ outcome' = outcome
    /\ UNCHANGED <<inputs, files, uuidNext, now, received, currentSessionId,
                   messagesForApi, sessionMessages, exitCode, others>>

(***************************************************************************)
(* await Promise.race([queryPromise, timeoutPromise]).finally(clearTimeout)*)
(* (452-471, 1061-1079).  What query() hands back is the runtime's choice: *)
(* the race is settled by it, by its rejection, or by the timer.           *)
(***************************************************************************)
QueryResolves ==
    /\ pc = "race"
    /\ timer' = "cleared"
    /\ currentSessionId' = resumeSessionId
    /\ pc' = "loop"
    /\ UNCHANGED <<inputs, files, uuidNext, now, out, received, outcome,
                   messagesForApi, sessionMessages, exitCode, others>>

QueryRejects ==
    /\ pc = "race"
    /\ timer' = "cleared"
    /\ out' = Catch(out, "runtime error")
    /\ outcome' = "rejected"
    /\ pc' = "done"
    /\ UNCHANGED <<inputs, files, uuidNext, now, received, currentSessionId,
                   messagesForApi, sessionMessages, exitCode, others>>

QueryTimeout ==
    /\ pc = "race" /\ timer = "armed" /\ now >= QueryTimeoutMs
    /\ timer' = "fired"
    /\ out' = Catch(out, AbortMessage)
    /\ outcome' = "timeout"
    /\ pc' = "done"
    /\ UNCHANGED <<inputs, files, uuidNext, now, received, currentSessionId,
                   messagesForApi, sessionMessages, exitCode, others>>

\* time passes while the process is suspended; a due timer runs first
Tick ==
    /\ pc \in {"race", "loop", "call"}
    /\ now <= QueryTimeoutMs
    /\ ~(timer = "armed" /\ now >= QueryTimeoutMs)
    /\ now' = now + TickMs
    /\ UNCHANGED <<inputs, files, uuidNext, pc, out, received, currentSessionId,
                   timer, outcome, messagesForApi, sessionMessages, exitCode, others>>

(***************************************************************************)
(* for await (const msg of result) (479-515, 1087-1123).  The runtime      *)
(* yields an event, ends the stream, throws, or does nothing.              *)
(***************************************************************************)
\* the transcript after an event was relayed: the loop body writes to
\* standard output only and never calls persistJsonlMessage
filesAfterRelayPersisted(fs, sid, c, msg, uuid, ts) ==
    IF msg.type = "assistant"
      THEN persistJsonlMessage(fs, sid, c, "assistant", msg.content, uuid, ts)
      ELSE fs
filesAfterRelay(fs, sid, c, msg, uuid, ts) == fs

\* if (msg.type === 'system' && msg.session_id) currentSessionId = msg.session_id
capturedSessionIdOnce(cur, msg) ==
    IF msg.type = "system" /\ msg.session_id # "" /\ cur = ""
      THEN msg.session_id ELSE cur
capturedSessionId(cur, msg) ==
    IF msg.type = "system" /\ msg.session_id # "" THEN msg.session_id ELSE cur

StreamEvent ==
    /\ pc = "loop" /\ Len(received) < MaxEvents
    /\ \E msg \in Events :
         /\ received' = Append(received, msg)
         /\ out' = out \o EventLines(msg)
         /\ files' = filesAfterRelay(files, currentSessionId, cwd, msg, uuidNext, now)
         /\ currentSessionId' = capturedSessionId(currentSessionId, msg)
    /\ UNCHANGED <<inputs, uuidNext, now, pc, timer, outcome,
                   messagesForApi, sessionMessages, exitCode, others>>

StreamEnd ==
    /\ pc = "loop"
    /\ out' = EndOfExchange(out, currentSessionId)
    /\ outcome' = "exhausted"
    /\ pc' = "done"
    /\ UNCHANGED <<inputs, files, uuidNext, now, received, currentSessionId,
                   timer, messagesForApi, sessionMessages, exitCode, others>>

StreamThrows ==
    /\ pc = "loop"
    /\ out' = Catch(out, "runtime error")
    /\ outcome' = "threw"
    /\ pc' = "done"
    /\ UNCHANGED <<inputs, files, uuidNext, now, received, currentSessionId,
                   timer, messagesForApi, sessionMessages, exitCode, others>>

(***************************************************************************)
(* sendMessageWithAnthropicSDK (531-725).  persistJsonlMessage catches a   *)
(* failed write and the exchange goes on (826-847).                        *)
(***************************************************************************)
UserContent == ArrayContent(<<TextBlock(message)>>)
CurrentUserMessage == [role |-> "user", content |-> UserContent]

SystemInit(sid) == Event("system", sid, NoContent, "", FALSE)

\* const sessionId = (resumeSessionId && resumeSessionId !== '')
\*                     ? resumeSessionId : randomUUID()
sessionIdAlwaysFresh(resume) == FreshSessionId
sessionIdOf(resume) == IF resume # "" THEN resume ELSE FreshSessionId

SendMessageWithAnthropicSDK ==
    /\ command = "fallback" /\ pc = "start"
    /\ LET sessionId == sessionIdOf(resumeSessionId)
       IN  \E written \in BOOLEAN :
             LET fs == IF written
                         THEN persistJsonlMessage(files, sessionId, cwd, "user",
                                                  UserContent, uuidNext, now)
                         ELSE files
                 historyMessages == loadSessionHistory(fs, sessionId, cwd)
             IN  /\ files' = fs
                 /\ uuidNext' = IF written THEN uuidNext + 1 ELSE uuidNext
                 /\ messagesForApi' =
                      IF resumeSessionId # "" /\ Len(historyMessages) > 0
                        THEN historyMessages \o <<CurrentUserMessage>>
                        ELSE <<CurrentUserMessage>>
                 /\ currentSessionId' = sessionId
                 /\ out' = <<MessageStart, SessionIdLine(sessionId),
                             Message(SystemInit(sessionId))>>
    /\ pc' = "call"
    /\ UNCHANGED <<inputs, now, received, timer, outcome, sessionMessages, exitCode, others>>

\* errorMsg: response.error.message, response.message or the default text
ApiErrorMessages == {"overloaded", "Unknown API error"}
\* the text shown to the user: the error message inside the explanation
ErrorText(errorMsg) ==
    IF errorMsg = "overloaded" THEN "API error: overloaded, possible causes"
    ELSE "API error: Unknown API error, possible causes"

\* the lines written for an error-shaped response (617-651)
ErrorResponseThrown(sid, errorMsg) == <<Failure(errorMsg)>>
ErrorResponseLines(sid, errorMsg) ==
    <<Message(Event("assistant", sid, ArrayContent(<<TextBlock(ErrorText(errorMsg))>>),
                    "error", FALSE)),
      ContentLine(ErrorText(errorMsg)),
      Message(Event("result", sid, NoContent, "", TRUE)),
      MessageEnd,
      Failure(errorMsg)>>

\* client.messages.create answers with an error-shaped payload (606-653)
ApiErrorResponse ==
    /\ pc = "call"
    /\ \E errorMsg \in ApiErrorMessages :
         out' = out \o ErrorResponseLines(currentSessionId, errorMsg)
    /\ outcome' = "apierror"
    /\ pc' = "done"
    /\ UNCHANGED <<inputs, files, uuidNext, now, received, currentSessionId,
                   timer, messagesForApi, sessionMessages, exitCode, others>>

\* client.messages.create answers with a message (655-714)
ApiResponse ==
    /\ pc = "call"
    /\ \E respContent \in ResponseContents, written \in BOOLEAN :
         /\ out' = out \o <<Message(Event("assistant", currentSessionId,
                                          ArrayContent(respContent), "end_turn", FALSE))>>
                       \o BlockLines(respContent)
                       \o <<Message(Event("result", currentSessionId, NoContent, "", FALSE)),
                            MessageEnd,
                            Success(currentSessionId)>>
         /\ files' = IF written
                       THEN persistJsonlMessage(files, currentSessionId, cwd, "assistant",
                                                ArrayContent(respContent), uuidNext, now)
                       ELSE files
         /\ uuidNext' = IF written THEN uuidNext + 1 ELSE uuidNext
    /\ outcome' = "responded"
    /\ pc' = "done"
    /\ UNCHANGED <<inputs, now, received, currentSessionId, timer,
                   messagesForApi, sessionMessages, exitCode, others>>

\* client.messages.create rejects (716-724)
ApiThrows ==
    /\ pc = "call"
    /\ out' = Catch(out, "network error")
    /\ outcome' = "callthrew"
    /\ pc' = "done"
    /\ UNCHANGED <<inputs, files, uuidNext, now, received, currentSessionId,
                   timer, messagesForApi, sessionMessages, exitCode, others>>

(***************************************************************************)
(* getSessionMessages (1140-1185).                                         *)
(***************************************************************************)
\* .map(JSON.parse or null).filter(msg => msg !== null)
AllLines(lines) == lines
ParsedLines(lines) == SelectSeq(lines, LAMBDA l : l.parsable)

\* readFile may reject although existsSync saw the path (a directory, a file
\* that cannot be read): the catch block answers with the error's message
GetSessionMessages ==
    /\ command = "getSession" /\ pc = "start"
    /\ LET key == sessionFile(resumeSessionId, cwd)
       IN  IF key \notin DOMAIN files
             THEN /\ out' = <<Failure(NotFoundMessage)>>
                  /\ sessionMessages' = sessionMessages
                  /\ outcome' = "notfound"
             ELSE \E readable \in BOOLEAN :
                    IF readable
                      THEN /\ out' = <<SuccessMessages>>
                           /\ sessionMessages' = ParsedLines(files[key])
                           /\ outcome' = "found"
                      ELSE /\ out' = Catch(out, ReadErrorMessage)
                           /\ sessionMessages' = sessionMessages
                           /\ outcome' = "unreadable"
    /\ pc' = "done"
    /\ UNCHANGED <<inputs, files, uuidNext, now, received, currentSessionId,
                   timer, messagesForApi, exitCode, others>>

(***************************************************************************)
(* The dispatch (1211-1247) and the top-level handlers (1192-1208).        *)
(***************************************************************************)
\* default: the unknown command is answered and process.exit(1) is called
UnknownCommand ==
    /\ command \in UnknownCommands /\ pc = "start"
    /\ out' = <<Failure(UnknownCommandMessage(command))>>
    /\ outcome' = "unknown"
    /\ exitCode' = 1
    /\ pc' = "done"
    /\ UNCHANGED <<inputs, files, uuidNext, now, received, currentSessionId,
                   timer, messagesForApi, sessionMessages, others>>

\* the exit code of a command that has returned: the switch is left by
\* break, nothing sets an exit code, and the process ends when it is idle
exitCodeBySuccess(o) == IF o \in {"exhausted", "responded", "found"} THEN 0 ELSE 1
exitCodeOfReturn(o) == 0

ProcessEnds ==
    /\ pc = "done" /\ exitCode = NoExit
    /\ exitCode' = exitCodeOfReturn(outcome)
    /\ UNCHANGED <<inputs, files, uuidNext, now, pc, out, received,
                   currentSessionId, timer, outcome, messagesForApi,
                   sessionMessages, others>>

\* uncaughtException / unhandledRejection: something outside the awaited
\* call chain fails while the command is suspended; the handler answers
\* with the error and calls process.exit(1)
UnhandledFault ==
    /\ pc \in {"race", "loop", "call"}
    /\ out' = Append(out, Failure(FaultMessage))
    /\ outcome' = "fault"
    /\ exitCode' = 1
    /\ pc' = "crashed"
    /\ UNCHANGED <<inputs, files, uuidNext, now, received, currentSessionId,
                   timer, messagesForApi, sessionMessages, others>>

Next ==
    \/ SendMessage
    \/ SendMessageWithAttachments
    \/ QueryResolves
    \/ QueryRejects
    \/ QueryTimeout
    \/ Tick
    \/ StreamEvent
    \/ StreamEnd
    \/ StreamThrows
    \/ SendMessageWithAnthropicSDK
    \/ ApiErrorResponse
    \/ ApiResponse
    \/ ApiThrows
    \/ GetSessionMessages
    \/ UnknownCommand
    \/ ProcessEnds
    \/ UnhandledFault

Init == BridgeInit /\ StreamInit /\ HistIdle /\ PersistIdle /\ KeyIdle /\ WorkdirIdle
    /\ ModelIdle /\ AttachIdle /\ ExtraIdle

Spec == Init /\ [][Next]_vars

(***************************************************************************)
(* The for-await consumer: one call outstanding at a time.                 *)
(***************************************************************************)
ConsumerIterates == asyncIterator /\ UNCHANGED <<extraVars, histVars, bridgeVars, persistVars, keyVars,
                   workdirVars, modelVars, attachVars>>
ConsumerPulls == ConsumerIdle /\ next /\ UNCHANGED <<extraVars, histVars, bridgeVars, persistVars, keyVars,
                   workdirVars, modelVars, attachVars>>
ConsumerCancels == ConsumerIdle /\ return /\ UNCHANGED <<extraVars, histVars, bridgeVars, persistVars, keyVars,
                   workdirVars, modelVars, attachVars>>
ProducerEnqueues == enqueue /\ UNCHANGED <<extraVars, histVars, bridgeVars, persistVars, keyVars,
                   workdirVars, modelVars, attachVars>>
ProducerFinishes == done /\ UNCHANGED <<extraVars, histVars, bridgeVars, persistVars, keyVars,
                   workdirVars, modelVars, attachVars>>

StreamNext ==
    \/ ConsumerIterates
    \/ ConsumerPulls
    \/ ConsumerCancels
    \/ ProducerEnqueues
    \/ ProducerFinishes

StreamSpecInit == StreamInit /\ HistIdle /\ BridgeIdle /\ PersistIdle /\ KeyIdle /\ WorkdirIdle
    /\ ModelIdle /\ AttachIdle
    /\ ExtraIdle

StreamSpec == StreamSpecInit /\ [][StreamNext]_vars

LoadSessionHistory == LoadHistory /\ UNCHANGED <<extraVars, streamVars, bridgeVars, persistVars, keyVars,
                   workdirVars, modelVars, attachVars>>

HistNext == LoadSessionHistory

HistorySpecInit == HistInit /\ StreamInit /\ BridgeIdle /\ PersistIdle /\ KeyIdle /\ WorkdirIdle
    /\ ModelIdle /\ AttachIdle
    /\ ExtraIdle

HistorySpec == HistorySpecInit /\ [][HistNext]_vars

PersistJsonlMessage ==
    PersistCall /\ UNCHANGED <<extraVars, streamVars, histVars, bridgeVars, keyVars,
                   workdirVars, modelVars, attachVars>>
ClockAdvances ==
    PersistClock /\ UNCHANGED <<extraVars, streamVars, histVars, bridgeVars, keyVars,
                   workdirVars, modelVars, attachVars>>

PersistNext ==
    \/ PersistJsonlMessage
    \/ ClockAdvances

PersistSpecInit == PersistInit /\ StreamInit /\ HistIdle /\ BridgeIdle /\ KeyIdle /\ WorkdirIdle
    /\ ModelIdle /\ AttachIdle
    /\ ExtraIdle

PersistSpec == PersistSpecInit /\ [][PersistNext]_vars

SetupApiKey ==
    SetupApiKeyCall /\ UNCHANGED <<extraVars, streamVars, histVars, bridgeVars, persistVars,
                   workdirVars, modelVars, attachVars>>

KeyNext == SetupApiKey

KeySpecInit == KeyInit /\ StreamInit /\ HistIdle /\ BridgeIdle /\ PersistIdle /\ WorkdirIdle
    /\ ModelIdle /\ AttachIdle
    /\ ExtraIdle

KeySpec == KeySpecInit /\ [][KeyNext]_vars

SelectWorkingDirectory ==
    SelectCall /\ UNCHANGED <<extraVars, streamVars, histVars, bridgeVars, persistVars,
                   keyVars, modelVars, attachVars>>

WorkdirNext == SelectWorkingDirectory

WorkdirSpecInit ==
    WorkdirInit /\ StreamInit /\ HistIdle /\ BridgeIdle /\ PersistIdle /\ KeyIdle
    /\ ModelIdle /\ AttachIdle
    /\ ExtraIdle

WorkdirSpec == WorkdirSpecInit /\ [][WorkdirNext]_vars

MapModelIdToSdkName ==
    MapCall /\ UNCHANGED <<extraVars, streamVars, histVars, bridgeVars, persistVars,
                   keyVars, workdirVars, attachVars>>

ModelNext == MapModelIdToSdkName

ModelSpecInit ==
    ModelInit /\ StreamInit /\ HistIdle /\ BridgeIdle /\ PersistIdle /\ KeyIdle
    /\ WorkdirIdle /\ AttachIdle
    /\ ExtraIdle

ModelSpec == ModelSpecInit /\ [][ModelNext]_vars

LoadAttachments ==
    LoadCall /\ UNCHANGED <<extraVars, streamVars, histVars, bridgeVars, persistVars,
                            keyVars, workdirVars, modelVars>>
BuildContentBlocks ==
    BuildCall /\ UNCHANGED <<extraVars, streamVars, histVars, bridgeVars, persistVars,
                             keyVars, workdirVars, modelVars>>

AttachNext ==
    \/ LoadAttachments
    \/ BuildContentBlocks

AttachSpecInit ==
    AttachInit /\ StreamInit /\ HistIdle /\ BridgeIdle /\ PersistIdle /\ KeyIdle
    /\ WorkdirIdle /\ ModelIdle
    /\ ExtraIdle

AttachSpec == AttachSpecInit /\ [][AttachNext]_vars

CoreIdle == StreamInit /\ HistIdle /\ BridgeIdle /\ PersistIdle /\ KeyIdle /\ WorkdirIdle
    /\ ModelIdle /\ AttachIdle

(***************************************************************************)
(* The channel with callers that do not wait for their pull to be answered *)
(* before they pull again.                                                 *)
(***************************************************************************)
PullAnytime == next /\ UNCHANGED <<extraVars, histVars, bridgeVars, persistVars, keyVars,
                   workdirVars, modelVars, attachVars>>

PullNext ==
    \/ PullAnytime
    \/ ProducerEnqueues
    \/ ProducerFinishes

PullSpecInit == StreamInit /\ HistIdle /\ BridgeIdle /\ PersistIdle /\ KeyIdle /\ WorkdirIdle
    /\ ModelIdle /\ AttachIdle /\ ExtraIdle

PullSpec == PullSpecInit /\ [][PullNext]_vars

(***************************************************************************)
(* The two option builders on the same arguments and environment.          *)
(***************************************************************************)
BuildSendOptions == SendOptionsCall /\ UNCHANGED <<coreVars, stdinVars, sessionVars, depVars, chatVars>>
BuildAttachOptions == AttachOptionsCall /\ UNCHANGED <<coreVars, stdinVars, sessionVars, depVars, chatVars>>

OptionsNext ==
    \/ BuildSendOptions
    \/ BuildAttachOptions

OptionsSpecInit == OptionsInit /\ CoreIdle /\ StdinIdle /\ SessionIdle /\ DepIdle /\ ChatIdle

OptionsSpec == OptionsSpecInit /\ [][OptionsNext]_vars

(***************************************************************************)
(* The fallback path over several invocations on one session.              *)
(***************************************************************************)
Invoke == InvokeCall /\ UNCHANGED <<coreVars, optionVars, stdinVars, depVars, chatVars>>
Responds == RespondCall /\ UNCHANGED <<coreVars, optionVars, stdinVars, depVars, chatVars>>
Fails == FailCall /\ UNCHANGED <<coreVars, optionVars, stdinVars, depVars, chatVars>>

SessionNext ==
    \/ Invoke
    \/ Responds
    \/ Fails

SessionSpecInit == SessionInit /\ CoreIdle /\ OptionsIdle /\ StdinIdle /\ DepIdle /\ ChatIdle

SessionSpec == SessionSpecInit /\ [][SessionNext]_vars

(***************************************************************************)
(* The chat view.                                                          *)
(***************************************************************************)
HandleSubmit ==
    handleSubmit /\ UNCHANGED <<coreVars, optionVars, stdinVars, sessionVars, depVars>>
ShowLoading ==
    showLoading /\ UNCHANGED <<coreVars, optionVars, stdinVars, sessionVars, depVars>>
SendToJavaInjected ==
    BridgeInjected /\ UNCHANGED <<coreVars, optionVars, stdinVars, sessionVars, depVars>>

ChatNext ==
    \/ HandleSubmit
    \/ ShowLoading
    \/ SendToJavaInjected

ChatSpecInit ==
    ChatInit /\ CoreIdle /\ OptionsIdle /\ StdinIdle /\ SessionIdle /\ DepIdle

ChatSpec == ChatSpecInit /\ [][ChatNext]_vars

(***************************************************************************)
(* The dependency section of the settings view.                            *)
(***************************************************************************)
Mount == DepMount /\ UNCHANGED <<coreVars, optionVars, stdinVars, sessionVars, chatVars>>
Rerun == DepRerun /\ UNCHANGED <<coreVars, optionVars, stdinVars, sessionVars, chatVars>>
Unmount == DepUnmount /\ UNCHANGED <<coreVars, optionVars, stdinVars, sessionVars, chatVars>>
StatusUpdate == DepStatusUpdate /\ UNCHANGED <<coreVars, optionVars, stdinVars, sessionVars, chatVars>>
NodeStatus == DepNodeStatus /\ UNCHANGED <<coreVars, optionVars, stdinVars, sessionVars, chatVars>>
HandleInstall == handleInstall /\ UNCHANGED <<coreVars, optionVars, stdinVars, sessionVars, chatVars>>
InstallResult ==
    dependencyInstallResult /\ UNCHANGED <<coreVars, optionVars, stdinVars, sessionVars, chatVars>>

DepNext ==
    \/ Mount
    \/ Rerun
    \/ Unmount
    \/ StatusUpdate
    \/ NodeStatus
    \/ HandleInstall
    \/ InstallResult

DepSpecInit == DepInit /\ CoreIdle /\ OptionsIdle /\ StdinIdle /\ SessionIdle /\ ChatIdle

DepSpec == DepSpecInit /\ [][DepNext]_vars

(***************************************************************************)
(* The side-channel read.  The event loop runs a timer that is due and     *)
(* time does not stop, hence the fairness conditions.                      *)
(***************************************************************************)
ReadStdinData == readStdinData /\ UNCHANGED <<coreVars, optionVars, sessionVars, depVars, chatVars>>
StdinData == StdinOnData /\ UNCHANGED <<coreVars, optionVars, sessionVars, depVars, chatVars>>
StdinEnd == StdinOnEnd /\ UNCHANGED <<coreVars, optionVars, sessionVars, depVars, chatVars>>
StdinError == StdinOnError /\ UNCHANGED <<coreVars, optionVars, sessionVars, depVars, chatVars>>
StdinTimeout == StdinOnTimeout /\ UNCHANGED <<coreVars, optionVars, sessionVars, depVars, chatVars>>
StdinTimePasses == StdinTime /\ UNCHANGED <<coreVars, optionVars, sessionVars, depVars, chatVars>>

StdinNext ==
    \/ ReadStdinData
    \/ StdinData
    \/ StdinEnd
    \/ StdinError
    \/ StdinTimeout
    \/ StdinTimePasses

StdinSpecInit == StdinInit /\ CoreIdle /\ OptionsIdle /\ SessionIdle /\ DepIdle /\ ChatIdle

StdinSpec ==
    /\ StdinSpecInit /\ [][StdinNext]_vars
    /\ WF_vars(ReadStdinData) /\ WF_vars(StdinTimeout) /\ WF_vars(StdinTimePasses)

(***************************************************************************)
(* Properties.                                                             *)
(***************************************************************************)
Native == {"send", "sendWithAttachments"}
SendCommands == {"send", "sendWithAttachments", "fallback"}
Terminals(o) == {i \in DOMAIN o : o[i].tag \in {"SUCCESS", "FAILURE"}}
Tagged(o, tag) == {i \in DOMAIN o : o[i].tag = tag}

\* C1: when the runtime's event stream has not completed within the 60 s
\* budget, send / sendWithAttachments has ended with the record
\* {success:false, error:"Claude Code process aborted by user"}, with no
\* success record and no [SESSION_ID] line.
C1_TimeoutAborts ==
    (/\ command \in Native
     /\ now > QueryTimeoutMs
     /\ outcome \notin {"nokey", "attachment", "rejected", "threw", "exhausted"})
    => /\ pc = "done"
       /\ Len(out) > 0
       /\ out[Len(out)] = Failure(AbortMessage)
       /\ Tagged(out, "SUCCESS") = {}
       /\ Tagged(out, "SESSION_ID") = {}

\* C2: a send / sendWithAttachments invocation that has returned has written
\* exactly one terminal record: the success record when the stream was
\* exhausted, a failure record carrying the error on any caught failure;
\* before it returns it has written none.
C2_OneTerminalRecord ==
    command \in Native =>
      /\ pc \notin {"done", "crashed"} => Terminals(out) = {}
      /\ pc = "done" =>
           /\ Cardinality(Terminals(out)) = 1
           /\ \A i \in Terminals(out) :
                /\ outcome = "exhausted" <=> out[i].tag = "SUCCESS"
                /\ outcome = "exhausted" => out[i] = Success(currentSessionId)
                /\ outcome = "nokey" => out[i] = Failure(NoKeyMessage)
                /\ outcome = "timeout" => out[i] = Failure(AbortMessage)
                /\ outcome \in {"nokey", "attachment", "rejected", "timeout", "threw",
                                "exhausted"}

\* an error thrown in the middle of the stream, after a [SESSION_ID] line
C2_Witness ==
    /\ command \in Native /\ pc = "done" /\ outcome = "threw"
    /\ Tagged(out, "SESSION_ID") # {}

\* C3 as stated: in every send exchange the terminal record is the last line
\* and it comes after [MESSAGE_END].
C3_TerminalAfterMessageEnd ==
    command \in SendCommands =>
      \A i \in Terminals(out) :
        /\ i = Len(out)
        /\ \E j \in 1..(i - 1) : out[j].tag = "MESSAGE_END"

\* C3 (amended): in every send exchange the terminal record is the last line
\* written and no protocol line follows it; a success record, and the fallback
\* path's failure record for an error-shaped response, directly follows
\* [MESSAGE_END]; a failure record for a caught failure (missing credential,
\* bad attachment, rejected call, timeout, error thrown by the stream or the
\* remote call) is written without any [MESSAGE_END].
C3_TerminalIsLast ==
    command \in SendCommands =>
      /\ \A i \in Terminals(out) :
           /\ i = Len(out)
           /\ (out[i].tag = "SUCCESS" \/ outcome = "apierror")
                => i > 1 /\ out[i - 1].tag = "MESSAGE_END"
           /\ (out[i].tag = "FAILURE" /\ outcome # "apierror")
                => Tagged(out, "MESSAGE_END") = {}
      /\ \A j \in Tagged(out, "MESSAGE_END") :
           j = Len(out) - 1 /\ Terminals(out) = {Len(out)}

\* the remote call of the fallback path threw after the init event was relayed
C3_Witness ==
    /\ command = "fallback" /\ pc = "done" /\ outcome = "callthrew"
    /\ Tagged(out, "MESSAGE") # {}
    /\ out[Len(out)].tag = "FAILURE"

\* the lines the protocol prescribes for one runtime event: its [MESSAGE]
\* line, one [CONTENT] line per text block of an assistant event (content
\* given as a bare string is the one text block it abbreviates), and
\* [SESSION_ID] for a system event carrying a session id
TextsOf(e) ==
    IF e.type # "assistant" THEN <<>>
    ELSE IF e.content.kind = "array"
           THEN SelectSeq(e.content.blocks, LAMBDA b : b.type = "text")
    ELSE IF e.content.kind = "string" THEN <<TextBlock(e.content.str)>>
    ELSE <<>>

PrescribedLines(e) ==
    <<Message(e)>>
    \o [i \in 1..Len(TextsOf(e)) |-> ContentLine(TextsOf(e)[i].text)]
    \o (IF e.type = "system" /\ e.session_id # ""
          THEN <<SessionIdLine(e.session_id)>> ELSE <<>>)

RECURSIVE PrescribedFor(_)
PrescribedFor(evs) ==
    IF evs = <<>> THEN <<>>
    ELSE PrescribedFor(SubSeq(evs, 1, Len(evs) - 1)) \o PrescribedLines(evs[Len(evs)])

\* C4: when a native exchange's stream ends normally the protocol lines are
\* exactly [MESSAGE_START], [RESUMING] if resuming, the prescribed lines of
\* every runtime event in the order the runtime produced them, [MESSAGE_END]
\* and the success record.
C4_NativeLineSequence ==
    (command \in Native /\ outcome = "exhausted") =>
      /\ Len(out) >= 3
      /\ SubSeq(out, 1, Len(out) - 1) =
           <<MessageStart>>
           \o (IF resumeSessionId # "" THEN <<Resuming(resumeSessionId)>> ELSE <<>>)
           \o PrescribedFor(received)
           \o <<MessageEnd>>
      /\ out[Len(out)].tag = "SUCCESS"

\* a resumed exchange that relayed a system event with an id and an assistant
\* event holding text and tool-use blocks
C4_Witness ==
    /\ command \in Native /\ outcome = "exhausted" /\ resumeSessionId # ""
    /\ \E i, j \in DOMAIN received :
         /\ received[i].type = "system" /\ received[i].session_id # ""
         /\ received[j].type = "assistant"
         /\ \E b \in DOMAIN received[j].content.blocks :
              received[j].content.blocks[b].type = "tool_use"

Extends(old, new) == Len(new) >= Len(old) /\ SubSeq(new, 1, Len(old)) = old

\* C5: every step of every command leaves each transcript file an extension
\* of what it was: no line is rewritten, removed or reordered.
C5_AppendOnly ==
    [][\A k \in DOMAIN files :
          k \in DOMAIN files' /\ Extends(files[k], files'[k])]_vars

\* a resumed session whose transcript held entries and gained the user entry
\* and the assistant entry of this exchange
C5_Witness ==
    \E k \in DOMAIN files0 :
      /\ Len(files0[k]) >= 1
      /\ Len(files[k]) = Len(files0[k]) + 2
      /\ pc = "done"

\* the entries loadSessionHistory turns into messages: parsable lines of type
\* user or assistant that carry message content
IsTurn(l) == l.parsable /\ l.type \in {"user", "assistant"} /\ Truthy(l.content)
TurnsOf(lines) == {i \in DOMAIN lines : IsTurn(lines[i])}
LastTurn(lines) == CHOOSE i \in TurnsOf(lines) : \A j \in TurnsOf(lines) : j <= i
KeptTurns(lines) ==
    IF TurnsOf(lines) # {} /\ lines[LastTurn(lines)].type = "user"
      THEN TurnsOf(lines) \ {LastTurn(lines)}
      ELSE TurnsOf(lines)

C7_ResumeSendsHistoryThenCurrent ==
    (command = "fallback" /\ resumeSessionId # "" /\ pc \in {"call", "done"}) =>
      LET key == sessionFile(resumeSessionId, cwd)
          earlier == IF key \in DOMAIN files0 THEN files0[key] ELSE <<>>
      IN  messagesForApi =
            [i \in 1..Cardinality(TurnsOf(earlier)) |->
               LET l == earlier[CHOOSE k \in TurnsOf(earlier) :
                                  Cardinality({j \in TurnsOf(earlier) : j <= k}) = i]
               IN  [role |-> l.type, content |-> l.content]]
            \o <<CurrentUserMessage>>

\* C8: values reach the pulls in enqueue order, each once: the values
\* delivered are the oldest ones, in order, and the rest wait in the queue in
\* order; a pull is suspended only while the queue is empty and the channel
\* unfinished, and it is the one the next enqueue or done() resolves; end of
\* sequence is answered only by a finished channel, and (absent an early
\* cancellation) only after every value enqueued before done() was delivered.
C8_FifoDelivery ==
    LET valued == {i \in DOMAIN pulls : pulls[i] > 0}
        n == Cardinality(valued)
    IN  /\ \A i, j \in valued : i < j => pulls[i] < pulls[j]
        /\ {pulls[i] : i \in valued} = 1..n
        /\ queue = [k \in 1..(enqCount - n) |-> n + k]
        /\ \A i \in DOMAIN pulls :
             pulls[i] = Pending => readResolve = i /\ queue = <<>> /\ ~isDone
        /\ \A i \in DOMAIN pulls : pulls[i] = Eos => isDone
        /\ returnAt = NotYet =>
             \A i \in DOMAIN pulls :
               pulls[i] = Eos =>
                 \A v \in 1..doneAt : \E j \in 1..(i - 1) : pulls[j] = v

\* a pull answered at once from the queue, a pull that was suspended and got
\* the next value enqueued, and end of sequence after done()
C8_Witness ==
    /\ Len(pulls) >= 3
    /\ pulls[1] = 1 /\ 1 \notin waited
    /\ pulls[2] = 2 /\ 2 \in waited
    /\ pulls[3] = Eos /\ doneAt = 2 /\ returnAt = NotYet

\* C9: the first request for the iterator succeeds and every later one fails
\* with "Stream can only be iterated once", whatever was enqueued and whether
\* or not the channel is finished; a request changes neither the queue nor
\* the pulls.
C9_IterateOnce ==
    /\ [](\A i \in DOMAIN iterLog :
            iterLog[i] = IF i = 1 THEN "ok" ELSE "Stream can only be iterated once")
    /\ [][iterLog' # iterLog =>
            UNCHANGED <<queue, readResolve, isDone, pulls, enqCount>>]_vars

\* a second request made on a finished channel that still holds a value
C9_Witness ==
    /\ Len(iterLog) = 2
    /\ iterLog[2] = "Stream can only be iterated once"
    /\ Len(queue) > 0 /\ isDone

\* C10: after the consumer cancelled early (return() before done()), every
\* later pull answers end of sequence and none is resolved with a value.
C10_CancelledStaysFinished ==
    returnAt # NotYet =>
      \A i \in DOMAIN pulls : i > returnAt => pulls[i] = Eos

(***************************************************************************)
(* Written(k): the calls whose line reached session file k, in call order. *)
(***************************************************************************)
WrittenTo(k) ==
    SelectSeq(pCalls, LAMBDA c : c.written /\ sessionFile(c.sid, ProjectDir) = k)
PersistKeys == {sessionFile(sid, ProjectDir) : sid \in {"s1", "s2"}}
LinesOf(k) == IF k \in DOMAIN pFiles THEN pFiles[k] ELSE <<>>
StampedLines == {<<k, n>> \in PersistKeys \X (1..MaxAppends + 1) : n <= Len(LinesOf(k))}

\* every line written carries the entry's type and content, a unique
\* identifier, the owning session id and the time of writing, whatever
\* the entry brought itself
EveryEntryStamped ==
    /\ \A k \in PersistKeys :
         /\ Len(LinesOf(k)) = Len(WrittenTo(k))
         /\ \A n \in DOMAIN LinesOf(k) :
              LET line == LinesOf(k)[n]
                  call == WrittenTo(k)[n]
              IN  /\ line.type = call.obj.type
                  /\ line.content = call.obj.content
                  /\ sessionFile(line.sessionId, ProjectDir) = k
                  /\ line.timestamp = call.at
                  /\ line.uuid \in 1..pUuid
    /\ \A a, b \in StampedLines :
         a # b => LinesOf(a[1])[a[2]].uuid # LinesOf(b[1])[b[2]].uuid

\* the pairs of lines of one file that were written from the same entry
SameEntryTwice ==
    {<<k, n, m>> \in PersistKeys \X (1..MaxAppends + 1) \X (1..MaxAppends + 1) :
        /\ n < m /\ m <= Len(WrittenTo(k)) /\ m <= Len(LinesOf(k))
        /\ WrittenTo(k)[n].obj = WrittenTo(k)[m].obj}

\* C11 as stated: appending the same logical entry twice gives two lines
\* whose identifiers differ, whose timestamps differ and whose content is
\* identical; every entry written carries a unique identifier, the owning
\* session id and a timestamp, overriding the entry's own.
C11_TwiceDistinctIdsAndTimestamps ==
    /\ EveryEntryStamped
    /\ \A t \in SameEntryTwice :
         LET l1 == LinesOf(t[1])[t[2]]
             l2 == LinesOf(t[1])[t[3]]
         IN  /\ l1 # l2
             /\ l1.uuid # l2.uuid
             /\ l1.timestamp # l2.timestamp
             /\ l1.content = l2.content

\* C11 amended: appending the same logical entry twice gives two lines
\* whose identifiers differ and whose content is identical; their
\* timestamps are in append order and are equal when both appends fall in
\* the same millisecond.  Every entry written carries a unique identifier,
\* the owning session id and the time of writing, overriding the entry's own.
C11_TwiceDistinctIds ==
    /\ EveryEntryStamped
    /\ \A t \in SameEntryTwice :
         LET l1 == LinesOf(t[1])[t[2]]
             l2 == LinesOf(t[1])[t[3]]
         IN  /\ l1 # l2
             /\ l1.uuid # l2.uuid
             /\ l1.timestamp <= l2.timestamp
             /\ l1.content = l2.content

\* the entry that brings its own metadata was appended twice to one file,
\* once in a later millisecond and once more in that same millisecond
C11_Witness ==
    \E t \in SameEntryTwice, u \in SameEntryTwice :
        /\ WrittenTo(t[1])[t[2]].obj.uuid = 100
        /\ LinesOf(t[1])[t[2]].timestamp < LinesOf(t[1])[t[3]].timestamp
        /\ LinesOf(u[1])[u[2]].timestamp = LinesOf(u[1])[u[3]].timestamp

(***************************************************************************)
(* getSession.                                                             *)
(***************************************************************************)
SessionKey == sessionFile(resumeSessionId, cwd)
ParsableAt(lines) == {i \in DOMAIN lines : lines[i].parsable}
NthParsable(lines, n) ==
    CHOOSE i \in ParsableAt(lines) :
        Cardinality({j \in ParsableAt(lines) : j <= i}) = n

\* messages are the parsable entries of the file, verbatim, in file order
RawEntriesOf(lines) ==
    /\ Len(sessionMessages) = Cardinality(ParsableAt(lines))
    /\ \A n \in DOMAIN sessionMessages :
         sessionMessages[n] = lines[NthParsable(lines, n)]

\* C12 as stated: getSession emits exactly one JSON line and nothing else:
\* "Session file not found" when no transcript file exists for the
\* (sanitized project path, session id), otherwise {success:true, messages}
\* with all parsable entries verbatim in file order.
C12_GetSessionTwoOutcomes ==
    (command = "getSession" /\ pc = "done") =>
        IF SessionKey \notin DOMAIN files0
          THEN out = <<Failure(NotFoundMessage)>>
          ELSE out = <<SuccessMessages>> /\ RawEntriesOf(files0[SessionKey])

\* C12 amended: getSession emits exactly one JSON line and nothing else:
\* "Session file not found" when no transcript file exists; when the file
\* exists and is read, {success:true, messages} with all parsable entries
\* verbatim in file order; when the file exists but reading it fails,
\* {success:false, error} carrying the read error's message.
C12_GetSessionOneLine ==
    (command = "getSession" /\ pc = "done") =>
        /\ Len(out) = 1
        /\ files = files0
        /\ IF SessionKey \notin DOMAIN files0
             THEN out = <<Failure(NotFoundMessage)>>
             ELSE \/ out = <<SuccessMessages>> /\ RawEntriesOf(files0[SessionKey])
                  \/ /\ out = <<Failure(ReadErrorMessage)>>
                     /\ outcome = "unreadable"
                     /\ sessionMessages = <<>>

\* a file of an unparsable line followed by an entry was read
C12_Witness ==
    /\ command = "getSession" /\ pc = "done"
    /\ out = <<SuccessMessages>>
    /\ Len(sessionMessages) = 1
    /\ Len(files0[SessionKey]) = 2
    /\ ~files0[SessionKey][1].parsable

(***************************************************************************)
(* Credentials and endpoint.                                               *)
(***************************************************************************)
\* C13: when no API key is found, send and sendWithAttachments end with
\* the failure record of the configuration error; the runtime is never
\* called (no race, no timer, no event), nothing is written before the
\* record and nothing else happens.
C13_NoKeyFailsBeforeDispatch ==
    (command \in Native /\ ~hasApiKey) =>
        /\ pc \in {"start", "done"}
        /\ timer = "unset"
        /\ received = <<>>
        /\ messagesForApi = <<>>
        /\ files = files0
        /\ pc = "start" => out = <<>>
        /\ pc = "done" => out = <<Failure(NoKeyMessage)>> /\ outcome = "nokey"

\* a send without a key has ended
C13_Witness ==
    /\ command \in Native /\ ~hasApiKey
    /\ pc = "done"
    /\ out = <<Failure(NoKeyMessage)>>

C14_SettingsBeforeEnvironment ==
    (kPc = "returned") =>
        /\ kSettings.ANTHROPIC_API_KEY # NoKey =>
             /\ kResult.apiKey = kSettings.ANTHROPIC_API_KEY
             /\ kResult.apiKeySource = "settings.json"
        /\ (kSettings.ANTHROPIC_API_KEY = NoKey /\ kSettings.ANTHROPIC_AUTH_TOKEN # NoKey) =>
             /\ kResult.apiKey = kSettings.ANTHROPIC_AUTH_TOKEN
             /\ kResult.apiKeySource = "settings.json"
        /\ (kSettings.ANTHROPIC_API_KEY = NoKey /\ kSettings.ANTHROPIC_AUTH_TOKEN = NoKey) =>
             /\ kEnv0.ANTHROPIC_API_KEY # NoKey
             /\ kResult.apiKey = kEnv0.ANTHROPIC_API_KEY
             /\ kResult.apiKeySource = "environment"
        /\ kSettings.ANTHROPIC_BASE_URL # NoBaseUrl =>
             /\ kResult.baseUrl = kSettings.ANTHROPIC_BASE_URL
             /\ kResult.baseUrlSource = "settings.json"
        /\ (kSettings.ANTHROPIC_BASE_URL = NoBaseUrl /\ kEnv0.ANTHROPIC_BASE_URL # NoBaseUrl) =>
             /\ kResult.baseUrl = kEnv0.ANTHROPIC_BASE_URL
             /\ kResult.baseUrlSource = "environment"
        /\ (kSettings.ANTHROPIC_BASE_URL = NoBaseUrl /\ kEnv0.ANTHROPIC_BASE_URL = NoBaseUrl) =>
             /\ kResult.baseUrl = NoBaseUrl
             /\ kResult.baseUrlSource = "default"

\* the settings file's token and endpoint were chosen over different values
\* in the environment
C14_Witness ==
    /\ kPc = "returned"
    /\ kSettings.ANTHROPIC_API_KEY = NoKey
    /\ kSettings.ANTHROPIC_AUTH_TOKEN = "sk-1"
    /\ kEnv0.ANTHROPIC_API_KEY = "sk-2"
    /\ kResult.apiKey = "sk-1"
    /\ kSettings.ANTHROPIC_BASE_URL # NoBaseUrl
    /\ kEnv0.ANTHROPIC_BASE_URL \notin {NoBaseUrl, kSettings.ANTHROPIC_BASE_URL}
    /\ kResult.baseUrl = kSettings.ANTHROPIC_BASE_URL

(***************************************************************************)
(* Working directory.                                                      *)
(***************************************************************************)
WCandidates ==
    (IF wRequestedCwd \in {NoPath, SentinelUndefined, SentinelNull}
       THEN <<>> ELSE <<wRequestedCwd>>)
    \o (IF wEnvProjectPath = NoPath THEN <<>> ELSE <<wEnvProjectPath>>)
    \o <<wProcessCwd, wHomedir>>

\* temp: the normalized path starts with /tmp, /var/tmp or /private/tmp
UnderTemp(path) ==
    \E prefix \in getTempPathPrefixes :
        /\ Len(path) >= Len(prefix)
        /\ \A i \in DOMAIN prefix : path[i] = prefix[i]

\* a candidate qualifies when its canonical form is a directory on disk and
\* it is not rejected as temp (temp, and an environment project path known)
Qualifies(candidate) ==
    /\ sanitizePath(candidate) \in wDirectories
    /\ ~(UnderTemp(sanitizePath(candidate)) /\ wEnvProjectPath # NoPath)

\* C16: the result is the first candidate, in the order requested path
\* (unless absent or a sentinel), environment project path, current
\* directory, home directory, that is an existing directory after
\* canonicalization and is not rejected as temp; /tmp/x is skipped when an
\* environment project path is known and accepted when none is; when no
\* candidate qualifies the result is the environment project path, or else
\* the home directory.
C16_FirstQualifyingCandidate ==
    (wPc = "selected") =>
        /\ \A i \in DOMAIN WCandidates :
             (Qualifies(WCandidates[i])
              /\ \A j \in 1..(i - 1) : ~Qualifies(WCandidates[j]))
             => wSelected = sanitizePath(WCandidates[i])
        /\ (\A i \in DOMAIN WCandidates : ~Qualifies(WCandidates[i]))
             => wSelected = (IF wEnvProjectPath # NoPath THEN wEnvProjectPath
                             ELSE wHomedir)
        /\ (wRequestedCwd = TmpX /\ TmpX \in wDirectories) =>
             (wSelected = TmpX <=> (wEnvProjectPath = NoPath
                                    \/ (\A i \in DOMAIN WCandidates :
                                          ~Qualifies(WCandidates[i])
                                        /\ wEnvProjectPath = TmpX)))

\* /tmp/x was requested, exists and was accepted for want of an environment
\* project path
C16_Witness ==
    /\ wPc = "selected"
    /\ wRequestedCwd = TmpX
    /\ TmpX \in wDirectories
    /\ wEnvProjectPath = NoPath
    /\ wSelected = TmpX

\* C17: selectWorkingDirectory always produces a directory that exists.
C17_SelectedExists ==
    (wPc = "selected") => wSelected \in wDirectories

(***************************************************************************)
(* Model names.                                                            *)
(***************************************************************************)
UpperOf(ch) ==
    IF \E i \in DOMAIN LowerCase : LowerCase[i] = ch
      THEN UpperCase[CHOOSE i \in DOMAIN LowerCase : LowerCase[i] = ch]
      ELSE ch

\* the word occurs in the identifier, in any mix of upper and lower case
ContainsWord(id, word) ==
    /\ id.kind = "string"
    /\ \E at \in 0..Len(id.str) :
         /\ at + Len(word) <= Len(id.str)
         /\ \A j \in DOMAIN word : id.str[at + j] \in {word[j], UpperOf(word[j])}

\* C18: the name is 'opus' when the identifier contains "opus" in any case,
\* else 'haiku' when it contains "haiku" in any case, else 'sonnet', also
\* for absent, non-string and unrecognized identifiers; an identifier with
\* both words maps to 'opus'.
C18_OpusThenHaikuThenSonnet ==
    (mPc = "mapped") =>
        /\ ContainsWord(mModelId, Opus) => mSdkName = "opus"
        /\ (~ContainsWord(mModelId, Opus) /\ ContainsWord(mModelId, Haiku))
             => mSdkName = "haiku"
        /\ (~ContainsWord(mModelId, Opus) /\ ~ContainsWord(mModelId, Haiku))
             => mSdkName = "sonnet"

\* an identifier with "HaiKu" followed by "OPUS" was mapped to 'opus'
C18_Witness ==
    /\ mPc = "mapped"
    /\ mModelId = StringId(<<"H", "a", "i", "K", "u", "O", "P", "U", "S">>)
    /\ mSdkName = "opus"

(***************************************************************************)
(* Attachments.                                                            *)
(***************************************************************************)
IsImage(a) ==
    /\ a.stringType
    /\ Len(a.mediaType) >= Len(ImagePrefix)
    /\ \A i \in DOMAIN ImagePrefix : a.mediaType[i] = ImagePrefix[i]

IsBlank(chars) == \A i \in DOMAIN chars : chars[i] = " "

Placeholders ==
    {AttachmentsUploadedText, EmptyMessageText}
      \cup {ImagesUploadedText(n) : n \in 1..(MaxAttachments + 1)}

\* C19: the content built has one block per attachment, in attachment
\* order, an image block for a media type that starts with image/ and a text
\* placeholder block otherwise, and then exactly one more text block: the
\* user's message, or a synthesized placeholder when the message is empty or
\* blank.  The content is never empty and its last block is never an empty
\* text.
C19_BlocksThenText ==
    (aPc = "built") =>
        /\ Len(aContent) = Len(aAttachments) + 1
        /\ \A i \in DOMAIN aAttachments :
             IF IsImage(aAttachments[i])
               THEN /\ aContent[i].type = "image"
                    /\ aContent[i].media_type = aAttachments[i].mediaType
                    /\ aContent[i].data = aAttachments[i].data
               ELSE /\ aContent[i].type = "text"
                    /\ aContent[i].text.kind = "attachment"
        /\ LET last == aContent[Len(aContent)]
           IN  /\ last.type = "text"
               /\ IF IsBlank(aMessage)
                    THEN last.text \in Placeholders
                    ELSE last.text = MessageText(aMessage)
               /\ last.text # MessageText(<<>>)
               /\ last.text.kind = "message" => ~IsBlank(last.text.chars)

\* an image and a file came with a blank message: two blocks and the
\* placeholder that counts the image
C19_Witness ==
    /\ aPc = "built"
    /\ Len(aAttachments) = 2
    /\ IsImage(aAttachments[1]) /\ ~IsImage(aAttachments[2])
    /\ aMessage = <<" ", " ">>
    /\ aContent[3].text = ImagesUploadedText(1)

\* what the side channel delivered: the array, or the attachments array
SideChannelItems ==
    IF aStdinData.kind \in {"array", "wrapped"} THEN aStdinData.items ELSE <<>>
LegacyItems == IF aFile.kind = "array" THEN aFile.items ELSE <<>>

\* C20: loadAttachments returns the attachments of the side channel (a bare
\* array, or the attachments array of a wrapping object) when that data is
\* present and non-empty, in their order; otherwise, also when the
\* side-channel sequence is present but empty, it returns the attachments
\* of the legacy file.
C20_SideChannelElseLegacyFile ==
    (aPc # "start") =>
        aAttachments = (IF SideChannelItems # <<>> THEN SideChannelItems
                        ELSE LegacyItems)

\* C21 as stated: whatever the attachment input, sendWithAttachments with a
\* credential goes on to the request; no attachment input makes it end with
\* a failure record.
C21_AttachmentsNeverFail ==
    (command = "sendWithAttachments" /\ hasApiKey) =>
      /\ outcome # "attachment"
      /\ \A i \in Terminals(out) :
           out[i] # Failure("Cannot read properties of null")

\* C22: the process exits with code 1 exactly when the command is unknown,
\* after the single line {success:false, error:"Unknown command: <name>"},
\* or when a fault reaches the top-level handlers, after a failure line; a
\* command that returns, with a success record or with the failure record
\* of a missing credential, a bad attachment, a timeout or a runtime error,
\* never exits with code 1: when its process ends the code is 0.
C22_ExitOneOnlyUnknownOrFault ==
    /\ exitCode \in {NoExit, 0, 1}
    /\ exitCode = 1 <=> outcome \in {"unknown", "fault"}
    /\ outcome = "unknown" <=> (command \in UnknownCommands /\ pc # "start")
    /\ outcome = "unknown" => out = <<Failure(UnknownCommandMessage(command))>>
    /\ outcome = "fault" =>
         /\ out[Len(out)] = Failure(FaultMessage)
         /\ Cardinality(Terminals(out)) = 1
    /\ (pc = "done" /\ command \notin UnknownCommands) =>
         /\ exitCode \in {NoExit, 0}
         /\ out # <<>>

\* a send that timed out has ended with exit code 0
C22_Witness ==
    /\ command \in Native /\ outcome = "timeout"
    /\ out[Len(out)] = Failure(AbortMessage)
    /\ exitCode = 0

\* the lines an exchange added to transcript file k
AddedTo(k) ==
    SubSeq(files[k], (IF k \in DOMAIN files0 THEN Len(files0[k]) ELSE 0) + 1,
           Len(files[k]))

\* C23: an error-shaped response on the fallback path is answered with an
\* assistant [MESSAGE] whose stop_reason is "error" (and its [CONTENT]
\* line), a result [MESSAGE] with is_error true, [MESSAGE_END] and then
\* the record {success:false, error:<msg>} as the last line; the function
\* returns (no exit code 1) and the transcript gains no assistant entry.
C23_ErrorResponseIsSoftFailure ==
    (command = "fallback" /\ outcome = "apierror") =>
      /\ pc = "done" /\ exitCode # 1
      /\ Len(out) = 8
      /\ out[4].tag = "MESSAGE" /\ out[4].ev.type = "assistant"
      /\ out[4].ev.stop_reason = "error"
      /\ out[5].tag = "CONTENT"
      /\ out[6].tag = "MESSAGE" /\ out[6].ev.type = "result" /\ out[6].ev.is_error
      /\ out[7] = MessageEnd
      /\ \E errorMsg \in ApiErrorMessages :
           /\ out[8] = Failure(errorMsg)
           /\ out[5] = ContentLine(ErrorText(errorMsg))
      /\ Cardinality(Terminals(out)) = 1
      /\ \A k \in DOMAIN files : \A n \in DOMAIN AddedTo(k) :
           AddedTo(k)[n].type = "user"

\* an error-shaped response in a resumed session whose transcript already
\* held an entry: only the user entry was added
C23_Witness ==
    /\ command = "fallback" /\ outcome = "apierror" /\ resumeSessionId = "s1"
    /\ \E k \in DOMAIN files0 :
         /\ Len(files0[k]) >= 1
         /\ Len(files[k]) = Len(files0[k]) + 1
    /\ out[Len(out)] = Failure("overloaded")

\* C24 as stated: when the remote call fails (the query or the stream
\* rejects, the API call throws, or the response is error-shaped) an
\* assistant [MESSAGE] line is written before the failure record, and the
\* process does not exit with code 1.
C24_FailureShownAsAssistantMessage ==
    (command \in SendCommands
     /\ outcome \in {"rejected", "threw", "callthrew", "apierror"}) =>
      /\ exitCode # 1
      /\ \E i \in Terminals(out) :
           /\ out[i].tag = "FAILURE"
           /\ \E j \in 1..(i - 1) :
                out[j].tag = "MESSAGE" /\ out[j].ev.type = "assistant"

\* C25: no step of send or sendWithAttachments on the native path, and no
\* step of getSession, changes a transcript file, whether the command
\* succeeds, fails or times out; a transcript that differs from what it was
\* at the start was written by the fallback path.
C25_OnlyFallbackWrites ==
    [][/\ command \in Native \cup {"getSession"} => files' = files
       /\ files' # files0 => command = "fallback"]_vars

\* a send in a project that has a transcript has relayed an assistant event
\* and ended with the success record; the transcript is what it was
C25_Witness ==
    /\ command \in Native /\ outcome = "exhausted"
    /\ files0 = OneTranscript /\ files = files0
    /\ \E i \in DOMAIN received : received[i].type = "assistant"

\* the events of the [MESSAGE] lines of o, in order
EventsIn(o) ==
    LET ms == SelectSeq(o, LAMBDA l : l.tag = "MESSAGE")
    IN  [i \in DOMAIN ms |-> ms[i].ev]

\* what the for-await loop of the native path writes for a stream of events
RECURSIVE NativeRelay(_)
NativeRelay(evs) ==
    IF evs = <<>> THEN <<>>
    ELSE NativeRelay(SubSeq(evs, 1, Len(evs) - 1)) \o EventLines(evs[Len(evs)])

\* C26 as stated: the tagged lines of a fallback exchange that succeeded are
\* the lines the native path writes for a stream of the same events:
\* [MESSAGE_START], the system-init [MESSAGE] followed by its [SESSION_ID],
\* the assistant [MESSAGE] with its [CONTENT] lines, the result [MESSAGE],
\* [MESSAGE_END] and the success record, in that order.
C26_FallbackLinesAreNativeLines ==
    (command = "fallback" /\ outcome = "responded") =>
      out = <<MessageStart>> \o NativeRelay(EventsIn(out))
              \o <<MessageEnd, Success(currentSessionId)>>

\* C27 as stated: in a send exchange (send, sendWithAttachments, fallback)
\* with a non-empty resume id, a [RESUMING] line carrying that id is written
\* directly after [MESSAGE_START] and before the first [MESSAGE] line; with
\* no resume id, or an empty one, no [RESUMING] line is written.
C27_ResumingAnnounced ==
    command \in SendCommands =>
      /\ resumeSessionId = "" => Tagged(out, "RESUMING") = {}
      /\ \A i \in Tagged(out, "RESUMING") :
           out[i] = Resuming(resumeSessionId) /\ i = 2 /\ out[1] = MessageStart
      /\ (resumeSessionId # "" /\ Tagged(out, "MESSAGE") # {}) =>
           \E i \in Tagged(out, "RESUMING") :
             \A j \in Tagged(out, "MESSAGE") : i < j

\* C28: on the native path [MESSAGE_END] is written exactly when the event
\* stream was consumed to its end: the success record directly follows
\* [MESSAGE_END], and a failure record (missing credential, bad attachment,
\* rejected call, timeout, error thrown by the stream) is written with no
\* [MESSAGE_END] anywhere before it, whatever was relayed already.
C28_MessageEndIffStreamConsumed ==
    command \in Native =>
      /\ Tagged(out, "MESSAGE_END") # {} <=> outcome = "exhausted"
      /\ \A i \in Terminals(out) :
           /\ out[i].tag = "SUCCESS" =>
                i > 1 /\ out[i - 1] = MessageEnd /\ outcome = "exhausted"
           /\ out[i].tag = "FAILURE" => Tagged(out, "MESSAGE_END") = {}
      /\ outcome \in {"nokey", "attachment", "rejected", "timeout", "threw"} =>
           /\ out[Len(out)].tag = "FAILURE"
           /\ Tagged(out, "MESSAGE_END") = {}

\* the stream threw after two events, one of them a system event with its
\* [SESSION_ID] line: the failure record follows them without [MESSAGE_END]
C28_Witness ==
    /\ command \in Native /\ outcome = "threw"
    /\ Len(received) = 2
    /\ Tagged(out, "SESSION_ID") # {} /\ Tagged(out, "MESSAGE") # {}
    /\ Tagged(out, "MESSAGE_END") = {}
    /\ out[Len(out)] = Failure("runtime error")

\* the system events received that carry a session id, and the last of them
SessionEvents == SelectSeq(received, LAMBDA e : e.type = "system" /\ e.session_id # "")
SessionIdLines(o) == SelectSeq(o, LAMBDA l : l.tag = "SESSION_ID")

\* C29: on the native path every system event that carries a session id
\* gives one [SESSION_ID] line with that id, in stream order, and nothing
\* else gives one; the sessionId of the success record is the id of the
\* last such event, which is the id of the last [SESSION_ID] line, and it
\* is the caller's resume id when the stream had no such event.
C29_SuccessCarriesLastSessionId ==
    command \in Native =>
      /\ Len(SessionIdLines(out)) = Len(SessionEvents)
      /\ \A n \in DOMAIN SessionEvents :
           SessionIdLines(out)[n] = SessionIdLine(SessionEvents[n].session_id)
      /\ outcome = "exhausted" =>
           /\ out[Len(out)].tag = "SUCCESS"
           /\ SessionEvents = <<>> => out[Len(out)] = Success(resumeSessionId)
           /\ SessionEvents # <<>> =>
                /\ out[Len(out)] = Success(SessionEvents[Len(SessionEvents)].session_id)
                /\ out[Len(out)].text
                     = SessionIdLines(out)[Len(SessionIdLines(out))].text

\* a resumed send whose stream carried two system events with different
\* session ids: the success record has the second
C29_Witness ==
    /\ command \in Native /\ outcome = "exhausted" /\ resumeSessionId = "s1"
    /\ Len(SessionEvents) = 2
    /\ SessionEvents[1].session_id = "s2" /\ SessionEvents[2].session_id = "s3"
    /\ out[Len(out)] = Success("s3")

\* C30: on the fallback path the session id is the resume id when that is
\* non-empty and a fresh one otherwise, and everything one invocation
\* produces carries it: the [SESSION_ID] line, the session_id of every
\* synthesized event, every transcript entry written (and the file it goes
\* to) and the success record.
C30_OneSessionIdThroughout ==
    (command = "fallback" /\ pc # "start") =>
      LET sid == IF resumeSessionId # "" THEN resumeSessionId ELSE FreshSessionId
      IN  /\ out[2] = SessionIdLine(sid)
          /\ \A i \in Tagged(out, "SESSION_ID") : out[i].text = sid
          /\ \A i \in Tagged(out, "MESSAGE") : out[i].ev.session_id = sid
          /\ \A i \in Terminals(out) : out[i].tag = "SUCCESS" => out[i] = Success(sid)
          /\ \A k \in DOMAIN files : \A n \in DOMAIN AddedTo(k) :
               /\ AddedTo(k)[n].sessionId = sid
               /\ k = sessionFile(sid, cwd)
          /\ outcome = "responded" => out[Len(out)] = Success(sid)

\* a fallback exchange without a resume id succeeded: the user entry and
\* the assistant entry went to the transcript of the fresh session id
C30_Witness ==
    /\ command = "fallback" /\ outcome = "responded" /\ resumeSessionId = ""
    /\ out[Len(out)] = Success(FreshSessionId)
    /\ \E k \in DOMAIN files :
         k = sessionFile(FreshSessionId, cwd) /\ Len(AddedTo(k)) = 2

\* the entries a fallback exchange has added to its session's transcript,
\* and the number of writes that succeeded so far
FallbackKey == sessionFile(sessionIdOf(resumeSessionId), cwd)
FallbackAdded == IF FallbackKey \in DOMAIN files THEN AddedTo(FallbackKey) ELSE <<>>
WritesDone == uuidNext - (MaxPrior + 1)

\* C31: on the fallback path the user entry is in the transcript while the
\* remote call is outstanding, and the assistant entry is added only with a
\* successful response: every write that succeeds adds one entry, one write
\* (the user entry) is made before the call and when the call throws or
\* answers with an error, two (user, then assistant) on success; no other
\* transcript changes.
C31_UserBeforeCallAssistantAfterSuccess ==
    (command = "fallback" /\ pc # "start") =>
      /\ Len(FallbackAdded) = WritesDone
      /\ \A k \in DOMAIN files : k # FallbackKey => k \in DOMAIN files0 /\ files[k] = files0[k]
      /\ outcome # "responded" =>
           /\ WritesDone <= 1
           /\ \A n \in DOMAIN FallbackAdded :
                FallbackAdded[n].type = "user" /\ FallbackAdded[n].content = UserContent
      /\ outcome = "responded" =>
           /\ WritesDone <= 2
           /\ WritesDone = 2 =>
                /\ FallbackAdded[1].type = "user" /\ FallbackAdded[1].content = UserContent
                /\ FallbackAdded[2].type = "assistant"
                /\ FallbackAdded[2].content.kind = "array"

\* the remote call is outstanding and the user entry is already in the
\* transcript of a resumed session
C31_Witness ==
    /\ command = "fallback" /\ pc = "call" /\ resumeSessionId = "s1"
    /\ Len(FallbackAdded) = 1 /\ FallbackAdded[1].type = "user"
    /\ FallbackKey \in DOMAIN files0

(***************************************************************************)
(* Delivery options.                                                       *)
(***************************************************************************)
\* C32 as stated: the permission callback is in the options exactly when
\* the permission mode the request runs with is 'default', also when
\* 'default' was substituted for an omitted mode; never for 'plan' or
\* 'bypassPermissions'.
C32_CallbackIffDefaultInEffect ==
    /\ oSend.built => (oSend.canUseTool <=> oSend.permissionMode = "default")
    /\ oAttach.built => (oAttach.canUseTool <=> oAttach.permissionMode = "default")

\* C37 as stated: on the same arguments in the same environment send and
\* sendWithAttachments give query() the same options: working directory,
\* permission mode, model name, turn ceiling, additional directories,
\* permission callback, executable path and resume id.
C37_SameDeliveryOptions ==
    (oSend.built /\ oAttach.built) => oSend = oAttach

(***************************************************************************)
(* The channel under overlapping pulls, and after end of sequence.         *)
(***************************************************************************)
\* C35 as stated: no wake-up is lost: a pull that is suspended is the one
\* the next enqueue or done resolves, also when another pull was issued
\* while it was suspended, and after done() no pull is suspended.
C35_NoLostWakeup ==
    /\ \A i \in DOMAIN pulls : pulls[i] = Pending => readResolve = i
    /\ doneAt # NotYet => \A i \in DOMAIN pulls : pulls[i] # Pending

\* C36 as stated: once a pull has answered end of sequence no later pull
\* answers a value, whatever is enqueued afterwards.
C36_EndOfSequencePermanent ==
    \A i \in DOMAIN pulls : \A j \in DOMAIN pulls :
        (i < j /\ pulls[i] = Eos) => pulls[j] \in {Eos, Pending}

(***************************************************************************)
(* The side-channel read.                                                  *)
(***************************************************************************)
StdinEnded == \E i \in DOMAIN rEvents : rEvents[i] = "end"
StdinErrored == \E i \in DOMAIN rEvents : rEvents[i] = "error"

\* the result is no data, or the payload of input that ended as valid JSON
\* before an error and before the timer
StdinResultJustified ==
    /\ rResult \in {Unresolved, NoData, EmptyArrayPayload}
    /\ (rEvents # <<"new">> /\ ~rUseStdin) => rResult = NoData
    /\ rResult = EmptyArrayPayload =>
         /\ rUseStdin /\ StdinEnded /\ rTimeout = "cleared"
         /\ trim(rData) = <<"[", "]">>
    /\ (rResult = Unresolved /\ rEvents # <<"new">>) =>
         /\ rTimeout = "armed"
         /\ ~StdinEnded /\ ~StdinErrored
    /\ rTimeout = "fired" => rResult = NoData

\* C33: readStdinData always completes with one result: no data at once
\* without the flag; with it the parsed payload when the input ends as
\* valid JSON, and no data for blank input, malformed JSON, an error event
\* or 5 seconds without the end; whatever arrives after the result does not
\* change it, and the result is always produced.
C33_StdinReadCompletesOnce ==
    /\ []StdinResultJustified
    /\ [][rResult # Unresolved => rResult' = rResult]_vars
    /\ <>(rResult # Unresolved)

\* the timer answered, and the end of valid input came afterwards
C33_Witness ==
    /\ rTimeout = "fired" /\ rResult = NoData
    /\ StdinEnded /\ trim(rData) = <<"[", "]">>

(***************************************************************************)
(* The message list of the fallback path.                                  *)
(***************************************************************************)
\* C34 as stated: whatever happened in the earlier invocations on the
\* session, the message list of an invocation alternates user and assistant
\* messages and starts and ends with a user message.
C34_MessagesAlternate ==
    sPc = "call" =>
      /\ Len(sMessages) % 2 = 1
      /\ \A i \in DOMAIN sMessages :
           sMessages[i].role = (IF i % 2 = 1 THEN "user" ELSE "assistant")


\* C39: while the section is mounted, every SDK whose installation was
\* requested and whose result has not arrived is the one shown as
\* installing, and the result of one SDK leaves the installing state of the
\* other alone.
C39_InstallingUntilOwnResult ==
    /\ [](dMounted => \A sdk \in dOutstanding : dInstallingSdk = sdk)
    /\ [][\A sdk \in SdkIds :
            (dInstallingSdk = sdk /\ sdk \in dOutstanding' /\ dMounted')
                => dInstallingSdk' = sdk]_vars

C38_SubmitAppendsOneSendsOne ==
    [][cSubmits' # cSubmits =>
         LET text == trim(cContent')
             has == cAttachments'.isArray /\ Len(cAttachments'.items) > 0
         IN  IF (text = <<>> /\ ~has) \/ cLoading
               THEN cMessages' = cMessages /\ cSent' = cSent
               ELSE /\ Len(cMessages') = Len(cMessages) + 1
                    /\ SubSeq(cMessages', 1, Len(cMessages)) = cMessages
                    /\ cMessages'[Len(cMessages')].type = "user"
                    /\ Len(cSent') = Len(cSent) + 1
                    /\ SubSeq(cSent', 1, Len(cSent)) = cSent
                    /\ cSent'[Len(cSent')].event =
                         IF has THEN "send_message_with_attachments"
                         ELSE "send_message"]_vars

=============================================================================
